---------------------------- MODULE Spec2Model ----------------------------
(***************************************************************************)
(* A model of pixi-devenv: the workspace graph builder (workspace.py), the *)
(* inheritance policy (project.py) and the consolidation of specs and      *)
(* environment variables (consolidate.py).                                 *)
(*                                                                         *)
(* Python values are modelled as follows.                                  *)
(*   str                a TLA+ string; f"{a},{b}" is a \o "," \o b         *)
(*   tuple / list       a sequence                                         *)
(*   dict               a function whose DOMAIN is the set of keys; the    *)
(*                      dicts whose insertion order the code depends on    *)
(*                      (projects, graph) carry their keys as a sequence   *)
(*   str | tuple[str]   a record [is_tuple, items]: a scalar "x" is        *)
(*                      [is_tuple |-> FALSE, items |-> <<"x">>]            *)
(*   return / raise     a record [ok |-> TRUE, val |-> v] or               *)
(*                      [ok |-> FALSE, error |-> class, msg |-> text]      *)
(***************************************************************************)
EXTENDS Naturals, Sequences, FiniteSets, TLC

VARIABLES
    mode,          \* which entry point of the package the behaviour exercises
    acc,           \* unit level: the running MergedSpec / MergedEnvVarValue
    call,          \* unit level: the last call made, with its arguments and result
    files,         \* the pixi.devenv.toml files read so far: project name -> Project
    pc,            \* position in update_pixi_config / Workspace.from_starting_file
    to_process,    \* from_starting_file: the work list (a stack of loaded projects)
    projects,      \* from_starting_file: keys of the projects dict, in insertion order
    graph,         \* from_starting_file: project name -> names of its direct upstreams
    project,       \* from_starting_file: the project popped last
    upstream_i,    \* from_starting_file: index of the next upstream of `project` to load
    ws,            \* the outcome of Workspace.from_starting_file
    consolidated   \* the outcome of consolidate_devenv

unitVars == <<acc, call>>

buildVars == <<files, pc, to_process, projects, graph, project, upstream_i, ws, consolidated>>

vars == <<mode, acc, call, files, pc, to_process, projects, graph, project, upstream_i, ws,
          consolidated>>

-----------------------------------------------------------------------------
(* Results of calls *)

Ok(v) == [ok |-> TRUE, val |-> v]

Raise(cls, m) == [ok |-> FALSE, error |-> cls, msg |-> m]

\* Continue with the value of a call that returned; pass on what it raised.
Then(r, F(_)) == IF r.ok THEN F(r.val) ELSE r

NoCall == [fn |-> "none"]

NoAcc == [ok |-> FALSE, error |-> "none", msg |-> ""]

NotYet == [ok |-> FALSE, error |-> "none", msg |-> ""]

EmptyDict == <<>>

\* Unit-level behaviours do not run the update pipeline, and conversely.
PipelineIdle ==
    /\ files = EmptyDict
    /\ pc = "idle"
    /\ to_process = <<>>
    /\ projects = <<>>
    /\ graph = EmptyDict
    /\ project = [name |-> "", directory |-> <<>>]
    /\ upstream_i = 0
    /\ ws = NotYet
    /\ consolidated = NotYet

UnitIdle == acc = NoAcc /\ call = NoCall

-----------------------------------------------------------------------------
(* project.py: Spec *)

Spec_(version, build, channel) == [version |-> version, build |-> build, channel |-> channel]

(* consolidate.py: MergedSpec *)

MergedSpec(sources, spec) == [sources |-> sources, spec |-> spec]

\* MergedSpec.add with the two version branches collapsed: always joins.
MergedSpec_add_AlwaysJoin(self, spec_name, sources, spec) ==
    LET version == self.spec.version \o "," \o spec.version
    IN  IF self.spec.build # "" /\ spec.build # "" /\ self.spec.build # spec.build
        THEN Raise("DevEnvError", "Conflicting builds")
        ELSE IF self.spec.channel # "" /\ spec.channel # "" /\ self.spec.channel # spec.channel
        THEN Raise("DevEnvError", "Conflicting channels")
        ELSE Ok(MergedSpec(self.sources \o sources,
                           Spec_(version,
                                 IF self.spec.build # "" THEN self.spec.build ELSE spec.build,
                                 IF self.spec.channel # "" THEN self.spec.channel ELSE spec.channel)))

\* MergedSpec.add where the incoming build/channel overrides instead of conflicting.
MergedSpec_add_NewWins(self, spec_name, sources, spec) ==
    LET version == IF self.spec.version # "*" /\ spec.version # "*"
                   THEN self.spec.version \o "," \o spec.version
                   ELSE IF self.spec.version # "*" THEN self.spec.version
                   ELSE spec.version
    IN  Ok(MergedSpec(self.sources \o sources,
                      Spec_(version,
                            IF spec.build # "" THEN spec.build ELSE self.spec.build,
                            IF spec.channel # "" THEN spec.channel ELSE self.spec.channel)))

\* MergedSpec.add where an incoming empty build or channel clears the field.
MergedSpec_add_EmptyResets(self, spec_name, sources, spec) ==
    LET version == IF self.spec.version # "*" /\ spec.version # "*"
                   THEN self.spec.version \o "," \o spec.version
                   ELSE IF self.spec.version # "*" THEN self.spec.version
                   ELSE spec.version
    IN  IF self.spec.build # "" /\ spec.build # "" /\ self.spec.build # spec.build
        THEN Raise("DevEnvError", "Conflicting builds")
        ELSE IF self.spec.channel # "" /\ spec.channel # "" /\ self.spec.channel # spec.channel
        THEN Raise("DevEnvError", "Conflicting channels")
        ELSE Ok(MergedSpec(self.sources \o sources, Spec_(version, spec.build, spec.channel)))

\* MergedSpec.add(self, spec_name, sources, spec).  `sources` is the tuple the
\* code normalises its argument to (lines 162-163): a caller passing a single
\* project name passes <<name>>.
MergedSpec_add(self, spec_name, sources, spec) ==
    LET version == IF self.spec.version # "*" /\ spec.version # "*"
                   THEN self.spec.version \o "," \o spec.version
                   ELSE IF self.spec.version # "*" THEN self.spec.version
                   ELSE spec.version
    IN  IF self.spec.build # "" /\ spec.build # "" /\ self.spec.build # spec.build
        THEN Raise("DevEnvError", "Conflicting builds")
        ELSE IF self.spec.channel # "" /\ spec.channel # "" /\ self.spec.channel # spec.channel
        THEN Raise("DevEnvError", "Conflicting channels")
        ELSE Ok(MergedSpec(self.sources \o sources,
                           Spec_(version,
                                 IF self.spec.build # "" THEN self.spec.build ELSE spec.build,
                                 IF self.spec.channel # "" THEN self.spec.channel ELSE spec.channel)))

-----------------------------------------------------------------------------
(* Unit level: a chain of MergedSpec.add calls on one dependency name, as   *)
(* update_specs makes them.                                                 *)

MaxChain == 3

ChainNames == <<"bootstrap", "a", "b", "c", "d">>

Versions == {"*", ">=1.0", "<2"}

Builds == {"", "b1", "b2"}

Channels == {"", "ch1"}

Specs == {Spec_(v, b, c) : v \in Versions, b \in Builds, c \in Channels}

InitAdd ==
    /\ mode = "add"
    /\ \E s \in Specs : acc = Ok(MergedSpec(<<ChainNames[1]>>, s))
    /\ call = NoCall
    /\ PipelineIdle

AddCall ==
    /\ mode = "add"
    /\ acc.ok
    /\ Len(acc.val.sources) < MaxChain
    /\ \E s \in Specs :
         LET p == ChainNames[Len(acc.val.sources) + 1]
             ret == MergedSpec_add(acc.val, "lib", <<p>>, s)
         IN  /\ call' = [fn |-> "MergedSpec.add", self |-> acc.val,
                         sources |-> <<p>>, spec |-> s, ret |-> ret]
             /\ acc' = ret
    /\ UNCHANGED <<mode, buildVars>>

NextAdd == AddCall

SpecAdd == InitAdd /\ [][NextAdd]_vars

-----------------------------------------------------------------------------
(* Unit level: the same chain with the contributions kept, for builds and   *)
(* channels.                                                                *)

MaxContribs == 4

ChainSpecs == {Spec_("*", b, c) : b \in {"", "b1", "b2"}, c \in {"", "ch1", "ch2"}}

RECURSIVE ChainFrom(_, _, _)
\* The calls update_specs makes for one name, one per remaining contribution.
ChainFrom(merged, given, i) ==
    IF i > Len(given) THEN Ok(merged)
    ELSE Then(MergedSpec_add(merged, "lib", <<ChainNames[i]>>, given[i]),
              LAMBDA m : ChainFrom(m, given, i + 1))

\* The merged spec of a sequence of contributions, upstream first.
Chain(given) == ChainFrom(MergedSpec(<<ChainNames[1]>>, given[1]), given, 2)

InitChain ==
    /\ mode = "chain"
    /\ \E s \in ChainSpecs :
         /\ acc = Ok(MergedSpec(<<ChainNames[1]>>, s))
         /\ call = [fn |-> "MergedSpec", given |-> <<s>>]
    /\ PipelineIdle

ChainCall ==
    /\ mode = "chain"
    /\ acc.ok
    /\ Len(call.given) < MaxContribs
    /\ \E s \in ChainSpecs :
         LET p == ChainNames[Len(call.given) + 1]
             ret == MergedSpec_add(acc.val, "lib", <<p>>, s)
         IN  /\ call' = [fn |-> "MergedSpec.add", given |-> Append(call.given, s)]
             /\ acc' = ret
    /\ UNCHANGED <<mode, buildVars>>

NextChain == ChainCall

SpecChain == InitChain /\ [][NextChain]_vars

-----------------------------------------------------------------------------
(* consolidate.py: ResolvedEnvVar, MergedEnvVarValue *)

\* An EnvVarValue (project.py:94): a str, or a tuple of str.
StrValue(s) == [is_tuple |-> FALSE, items |-> <<s>>]

TupleValue(items) == [is_tuple |-> TRUE, items |-> items]

ResolvedEnvVar(value) == [value |-> value]

MergedEnvVarValue(sources, var) == [sources |-> sources, var |-> var]

ShapeError == Raise("DevEnvError", "Incompatible env-var definition, they should have the same type")

\* MergedEnvVarValue.merge with the shape checks dropped.
MergedEnvVarValue_merge_NoShapeCheck(self, other) ==
    LET sources == self.sources \o other.sources
    IN  IF ~other.var.value.is_tuple
        THEN Ok(MergedEnvVarValue(sources, other.var))
        ELSE Ok(MergedEnvVarValue(sources,
                    ResolvedEnvVar(TupleValue(self.var.value.items \o other.var.value.items))))

\* MergedEnvVarValue.merge keeping the older scalar (and the older sources first).
MergedEnvVarValue_merge_KeepOlder(self, other) ==
    LET sources == self.sources \o other.sources
    IN  IF ~other.var.value.is_tuple
        THEN IF self.var.value.is_tuple
             THEN ShapeError
             ELSE Ok(MergedEnvVarValue(sources, self.var))
        ELSE IF ~self.var.value.is_tuple
             THEN ShapeError
             ELSE Ok(MergedEnvVarValue(sources,
                        ResolvedEnvVar(TupleValue(self.var.value.items \o other.var.value.items))))

\* MergedEnvVarValue.merge(self, other): self is the older (upstream) value,
\* other the newer one.
MergedEnvVarValue_merge(self, other) ==
    LET sources == self.sources \o other.sources
    IN  IF ~other.var.value.is_tuple
        THEN IF self.var.value.is_tuple
             THEN ShapeError
             ELSE Ok(MergedEnvVarValue(sources, other.var))
        ELSE IF ~self.var.value.is_tuple
             THEN ShapeError
             ELSE Ok(MergedEnvVarValue(sources,
                        ResolvedEnvVar(TupleValue(self.var.value.items \o other.var.value.items))))

-----------------------------------------------------------------------------
(* Unit level: a chain of MergedEnvVarValue.merge calls on one variable, as *)
(* the env-var loop of _consolidate_aspects makes them.                     *)

EnvStrings == {"x", "y", "z"}

EnvValues ==
    {StrValue(s) : s \in EnvStrings}
      \cup {TupleValue(<<s>>) : s \in EnvStrings}
      \cup {TupleValue(<<s, t>>) : s \in EnvStrings, t \in EnvStrings \ {"z"}}

InitEnv ==
    /\ mode = "env"
    /\ \E v \in EnvValues : acc = Ok(MergedEnvVarValue(<<ChainNames[1]>>, ResolvedEnvVar(v)))
    /\ call = NoCall
    /\ PipelineIdle

MergeCall ==
    /\ mode = "env"
    /\ acc.ok
    /\ Len(acc.val.sources) < MaxChain
    /\ \E v \in EnvValues :
         LET p == ChainNames[Len(acc.val.sources) + 1]
             other == MergedEnvVarValue(<<p>>, ResolvedEnvVar(v))
             ret == MergedEnvVarValue_merge(acc.val, other)
         IN  /\ call' = [fn |-> "MergedEnvVarValue.merge", self |-> acc.val,
                         other |-> other, ret |-> ret]
             /\ acc' = ret
    /\ UNCHANGED <<mode, buildVars>>

NextEnv == MergeCall

SpecEnv == InitEnv /\ [][NextEnv]_vars

-----------------------------------------------------------------------------
(* project.py: the schema of a pixi.devenv.toml file *)

\* Aspect (project.py:97-118).
Aspect(dependencies, pypi_dependencies, constraints, env_vars) ==
    [dependencies |-> dependencies, pypi_dependencies |-> pypi_dependencies,
     constraints |-> constraints, env_vars |-> env_vars]

EmptyAspect == Aspect(EmptyDict, EmptyDict, EmptyDict, EmptyDict)

\* Feature (project.py:121-143).
Feature(dependencies, pypi_dependencies, constraints, env_vars, target) ==
    [dependencies |-> dependencies, pypi_dependencies |-> pypi_dependencies,
     constraints |-> constraints, env_vars |-> env_vars, target |-> target]

\* bool | Include | Exclude (project.py:154-175, 197-200).
Bool(b) == [kind |-> "bool", value |-> b, names |-> <<>>]

Include(names) == [kind |-> "include", value |-> FALSE, names |-> names]

Exclude(names) == [kind |-> "exclude", value |-> FALSE, names |-> names]

\* Inheritance (project.py:178-200) with its defaults.
DefaultInheritance ==
    [dependencies |-> Bool(TRUE), pypi_dependencies |-> Bool(TRUE), env_vars |-> Bool(TRUE),
     features |-> EmptyDict]

\* Project (project.py:239-287) as parsed from a file, with the defaults of
\* the schema.  name_key and environments_key say whether the file defines
\* devenv.name and devenv.environments.  An upstream entry is given by the
\* name of the directory it points to, which is the name of the project.
DefaultProject ==
    [name_key |-> FALSE, environments_key |-> FALSE,
     channels |-> <<>>, platforms |-> <<>>, upstream |-> <<>>,
     dependencies |-> EmptyDict, pypi_dependencies |-> EmptyDict,
     constraints |-> EmptyDict, env_vars |-> EmptyDict,
     target |-> EmptyDict, feature |-> EmptyDict, inherit |-> DefaultInheritance]

\* Project.from_file accepting a devenv.environments table.
Project_from_file_IgnoreEnvironments(name, contents) ==
    IF contents.name_key
    THEN Raise("DevEnvError", "devenv.name should not be defined explicitly")
    ELSE Ok(name)

\* Project.from_file (project.py:298-311): the parsed file, or the error
\* raised for a reserved key.  The file's contents are `contents`.
Project_from_file(name, contents) ==
    IF contents.name_key
    THEN Raise("DevEnvError", "devenv.name should not be defined explicitly")
    ELSE IF contents.environments_key
    THEN Raise("DevEnvError", "devenv.environments table should not be defined")
    ELSE Ok(name)

\* Project.get_root_aspect (project.py:316-322).
Project_get_root_aspect(p) == Aspect(p.dependencies, p.pypi_dependencies, p.constraints, p.env_vars)

-----------------------------------------------------------------------------
(* Sequence helpers *)

SeqToSet(s) == {s[i] : i \in 1..Len(s)}

InSeq(x, s) == \E i \in 1..Len(s) : s[i] = x

Reverse(s) == [i \in 1..Len(s) |-> s[Len(s) + 1 - i]]

IndexOf(x, s) == CHOOSE i \in 1..Len(s) : s[i] = x

RECURSIVE SelectInOrder(_, _)
\* The elements of sequence s that are in set S, in the order of s.
SelectInOrder(s, S) ==
    IF s = <<>> THEN <<>>
    ELSE (IF Head(s) \in S THEN <<Head(s)>> ELSE <<>>) \o SelectInOrder(Tail(s), S)

RECURSIVE Dedupe(_, _)
\* The first occurrences of the elements of s that are not in `had`.
Dedupe(s, had) ==
    IF s = <<>> THEN <<>>
    ELSE IF Head(s) \in had THEN Dedupe(Tail(s), had)
    ELSE <<Head(s)>> \o Dedupe(Tail(s), had \cup {Head(s)})

RECURSIVE Flatten(_)
Flatten(ss) == IF ss = <<>> THEN <<>> ELSE Head(ss) \o Flatten(Tail(ss))

\* All sequences without repetition over the set S.
RECURSIVE Arrangements(_)
Arrangements(S) ==
    {<<>>} \cup UNION {{<<x>> \o t : t \in Arrangements(S \ {x})} : x \in S}

-----------------------------------------------------------------------------
(* graphlib.TopologicalSorter, as workspace.py:54-56 uses it.              *)
(* `keys` are the keys of the graph dict in insertion order and g maps a   *)
(* node to the sequence of its predecessors.                               *)

\* _node2info in insertion order: add(node, *predecessors) for each item.
TS_Nodes(keys, g) == Dedupe(Flatten([i \in 1..Len(keys) |-> <<keys[i]>> \o g[keys[i]]]), {})

\* npredecessors after all add() calls.
TS_NPredecessors(keys, g) ==
    [n \in SeqToSet(TS_Nodes(keys, g)) |-> IF InSeq(n, keys) THEN Len(g[n]) ELSE 0]

\* successors after all add() calls: for each item in order, the node is
\* appended to the successors of each of its predecessors.
TS_Successors(keys, g) ==
    [n \in SeqToSet(TS_Nodes(keys, g)) |->
        Flatten([i \in 1..Len(keys) |->
                    Flatten([j \in 1..Len(g[keys[i]]) |->
                                IF g[keys[i]][j] = n THEN <<keys[i]>> ELSE <<>>])])]

RECURSIVE TS_FindCycleVisit(_, _, _)
RECURSIVE TS_FindCycleAdvance(_, _)
\* _find_cycle: the body of `while True` for `node`.  st holds the stack,
\* the position of each stack entry's successor iterator, and `seen`.
TS_FindCycleVisit(succ, node, st) ==
    IF node \in st.seen
    THEN IF InSeq(node, st.stack)
         THEN [cycle |-> SubSeq(st.stack, IndexOf(node, st.stack), Len(st.stack)) \o <<node>>,
               seen |-> st.seen]
         ELSE TS_FindCycleAdvance(succ, st)
    ELSE TS_FindCycleAdvance(succ, [stack |-> Append(st.stack, node),
                                    it |-> Append(st.it, 1),
                                    seen |-> st.seen \cup {node}])

\* _find_cycle: backtrack to the topmost entry with another successor.
TS_FindCycleAdvance(succ, st) ==
    IF st.stack = <<>>
    THEN [cycle |-> <<>>, seen |-> st.seen]
    ELSE LET top == st.stack[Len(st.stack)]
             k == st.it[Len(st.it)]
         IN  IF k <= Len(succ[top])
             THEN TS_FindCycleVisit(succ, succ[top][k],
                                    [st EXCEPT !.it[Len(st.it)] = k + 1])
             ELSE TS_FindCycleAdvance(succ, [stack |-> SubSeq(st.stack, 1, Len(st.stack) - 1),
                                             it |-> SubSeq(st.it, 1, Len(st.it) - 1),
                                             seen |-> st.seen])

RECURSIVE TS_FindCycleFrom(_, _, _)
\* _find_cycle: `for node in n2i`; <<>> stands for None.
TS_FindCycleFrom(succ, nodes, seen) ==
    IF nodes = <<>> THEN <<>>
    ELSE IF Head(nodes) \in seen THEN TS_FindCycleFrom(succ, Tail(nodes), seen)
    ELSE LET r == TS_FindCycleVisit(succ, Head(nodes), [stack |-> <<>>, it |-> <<>>, seen |-> seen])
         IN  IF r.cycle # <<>> THEN r.cycle
             ELSE TS_FindCycleFrom(succ, Tail(nodes), r.seen)

TS_FindCycle(keys, g) == TS_FindCycleFrom(TS_Successors(keys, g), TS_Nodes(keys, g), {})

RECURSIVE TS_DoneSuccessors(_, _)
\* done(): for one finished node, decrement each successor; a successor
\* reaching zero is appended to the ready nodes.
TS_DoneSuccessors(ss, st) ==
    IF ss = <<>> THEN st
    ELSE LET s == Head(ss)
             n == st.npred[s] - 1
         IN  TS_DoneSuccessors(Tail(ss),
                 [npred |-> [st.npred EXCEPT ![s] = n],
                  ready |-> IF n = 0 THEN Append(st.ready, s) ELSE st.ready])

RECURSIVE TS_Done(_, _, _)
TS_Done(succ, group, st) ==
    IF group = <<>> THEN st
    ELSE TS_Done(succ, Tail(group), TS_DoneSuccessors(succ[Head(group)], st))

RECURSIVE TS_Drain(_, _, _)
\* static_order after prepare(): while is_active(): get_ready, yield, done.
TS_Drain(succ, st, out) ==
    IF st.ready = <<>> THEN out
    ELSE TS_Drain(succ, TS_Done(succ, st.ready, [npred |-> st.npred, ready |-> <<>>]),
                  out \o st.ready)

\* list(sorter.static_order()): the order, or the CycleError with its cycle.
TS_static_order(keys, g) ==
    LET nodes == TS_Nodes(keys, g)
        npred == TS_NPredecessors(keys, g)
        succ == TS_Successors(keys, g)
        cycle == TS_FindCycle(keys, g)
    IN  IF cycle # <<>>
        THEN [ok |-> FALSE, error |-> "CycleError", msg |-> "nodes are in a cycle", cycle |-> cycle]
        ELSE Ok(TS_Drain(succ,
                         [npred |-> npred,
                          ready |-> SelectInOrder(nodes, {n \in SeqToSet(nodes) : npred[n] = 0})],
                         <<>>))

-----------------------------------------------------------------------------
(* project.py: Inheritance *)

\* _evaluate_for_project without the early return for the starting project.
Inheritance__evaluate_for_project_NoSelfRule(include_exclude, name, starting_name) ==
    CASE include_exclude.kind = "include" -> InSeq(name, include_exclude.names)
      [] include_exclude.kind = "exclude" -> ~InSeq(name, include_exclude.names)
      [] include_exclude.kind = "bool" -> include_exclude.value

\* _evaluate_for_project with the include and exclude cases swapped.
Inheritance__evaluate_for_project_Swapped(include_exclude, name, starting_name) ==
    IF name = starting_name THEN TRUE
    ELSE CASE include_exclude.kind = "include" -> ~InSeq(name, include_exclude.names)
           [] include_exclude.kind = "exclude" -> InSeq(name, include_exclude.names)
           [] include_exclude.kind = "bool" -> include_exclude.value

\* Inheritance._evaluate_for_project (project.py:222-236); the starting
\* project is given by its name, the only attribute the code reads.
Inheritance__evaluate_for_project(include_exclude, name, starting_name) ==
    IF name = starting_name THEN TRUE
    ELSE CASE include_exclude.kind = "include" -> InSeq(name, include_exclude.names)
           [] include_exclude.kind = "exclude" -> ~InSeq(name, include_exclude.names)
           [] include_exclude.kind = "bool" -> include_exclude.value

\* Inheritance.use_dependencies (project.py:202-204).
Inheritance_use_dependencies(self, name, starting_name) ==
    Inheritance__evaluate_for_project(self.dependencies, name, starting_name)

\* Inheritance.use_pypi_dependencies (project.py:206-208).
Inheritance_use_pypi_dependencies(self, name, starting_name) ==
    Inheritance__evaluate_for_project(self.pypi_dependencies, name, starting_name)

\* Inheritance.use_env_vars (project.py:210-212).
Inheritance_use_env_vars(self, name, starting_name) ==
    Inheritance__evaluate_for_project(self.env_vars, name, starting_name)

\* Truth value of `self.features.get(feature_name)`: None and False are
\* false, True and every Include or Exclude object is true.
Truthy(include_exclude) == include_exclude.kind # "bool" \/ include_exclude.value

\* use_feature without the rule for features the starting project declares.
Inheritance_use_feature_NoOwnRule(self, feature_name, project_name, starting_name, starting_features) ==
    IF feature_name \in DOMAIN self.features /\ Truthy(self.features[feature_name])
    THEN Inheritance__evaluate_for_project(self.features[feature_name], project_name,
                                           starting_name)
    ELSE FALSE

\* use_feature inheriting a feature that has no entry in inherit.features.
Inheritance_use_feature_DefaultTrue(self, feature_name, project_name, starting_name, starting_features) ==
    IF feature_name \in starting_features THEN TRUE
    ELSE IF feature_name \in DOMAIN self.features
    THEN Truthy(self.features[feature_name])
           /\ Inheritance__evaluate_for_project(self.features[feature_name], project_name,
                                                 starting_name)
    ELSE TRUE

\* Inheritance.use_feature (project.py:214-220); starting_features are the
\* feature names the starting project declares.
Inheritance_use_feature(self, feature_name, project_name, starting_name, starting_features) ==
    IF feature_name \in starting_features THEN TRUE
    ELSE IF feature_name \in DOMAIN self.features /\ Truthy(self.features[feature_name])
    THEN Inheritance__evaluate_for_project(self.features[feature_name], project_name,
                                           starting_name)
    ELSE FALSE

-----------------------------------------------------------------------------
(* project.py: Spec | str *)

\* A dependency as declared in a file: a bare version string, or a table.
StrSpec(version) == [is_str |-> TRUE, version |-> version, build |-> "", channel |-> ""]

TableSpec(version, build, channel) ==
    [is_str |-> FALSE, version |-> version, build |-> build, channel |-> channel]

\* Spec.normalized (project.py:75-83).
Spec_normalized(spec) ==
    IF spec.is_str THEN Spec_(spec.version, "", "")
    ELSE Spec_(spec.version, spec.build, spec.channel)

-----------------------------------------------------------------------------
(* consolidate.py: ResolvedEnvVar.resolve.  A path is the sequence of its  *)
(* components.  A raw env-var string is a sequence of tokens as str.format *)
(* reads it: literal text, a replacement field {name}, and the escapes {{  *)
(* and }}.                                                                 *)

Lit(text) == [kind |-> "lit", text |-> text]

Field(name) == [kind |-> "field", text |-> name]

LBrace == [kind |-> "lbrace", text |-> "{{"]

RBrace == [kind |-> "rbrace", text |-> "}}"]

IsPrefix(p, s) == Len(p) <= Len(s) /\ SubSeq(s, 1, Len(p)) = p

\* PurePath.relative_to (consolidate.py:194).
Path_relative_to(path, other) ==
    IF IsPrefix(other, path)
    THEN Ok(SubSeq(path, Len(other) + 1, Len(path)))
    ELSE Raise("ValueError", "path is not in the subpath of the other")

RECURSIVE NormParts(_, _)
NormParts(parts, out) ==
    IF parts = <<>> THEN out
    ELSE LET c == Head(parts)
         IN  IF c = "." THEN NormParts(Tail(parts), out)
             ELSE IF c = ".." /\ out # <<>> /\ out[Len(out)] # ".."
             THEN NormParts(Tail(parts), SubSeq(out, 1, Len(out) - 1))
             ELSE NormParts(Tail(parts), Append(out, c))

\* os.path.normpath leaving the path as it is written.
os_path_normpath_Keep(parts) == parts

\* os.path.normpath of a relative path (consolidate.py:195); <<>> is ".".
os_path_normpath(parts) == NormParts(parts, <<>>)

RECURSIVE JoinPosix(_, _)
\* PurePath(root, *parts).as_posix() (consolidate.py:197).
JoinPosix(root, parts) ==
    IF parts = <<>> THEN root
    ELSE JoinPosix(root \o "/" \o Head(parts), Tail(parts))

\* The text str.format writes for one token.
TokenText(t, value) ==
    CASE t.kind = "lit" -> t.text
      [] t.kind = "field" -> value
      [] t.kind = "lbrace" -> "{"
      [] t.kind = "rbrace" -> "}"

RECURSIVE str_format(_, _)
\* s.format(devenv_project_dir=value) (consolidate.py:200-201).
str_format(s, value) ==
    IF s = <<>> THEN Ok("")
    ELSE IF Head(s).kind = "field" /\ Head(s).text # "devenv_project_dir"
    THEN Raise("KeyError", Head(s).text)
    ELSE Then(str_format(Tail(s), value), LAMBDA rest : Ok(TokenText(Head(s), value) \o rest))

RECURSIVE FormatAll(_, _)
\* consolidate.py:203-207: every string component of the value.
FormatAll(items, value) ==
    IF items = <<>> THEN Ok(<<>>)
    ELSE Then(str_format(Head(items), value),
              LAMBDA h : Then(FormatAll(Tail(items), value), LAMBDA t : Ok(<<h>> \o t)))

\* ResolvedEnvVar.resolve (consolidate.py:192-209), given the directories
\* of the project and of the starting project.
ResolvedEnvVar_resolve(directory, starting_directory, value) ==
    Then(Path_relative_to(directory, starting_directory),
         LAMBDA relative :
            Then(FormatAll(value.items,
                           JoinPosix("${PIXI_PROJECT_ROOT}", os_path_normpath(relative))),
                 LAMBDA items :
                    Ok(ResolvedEnvVar([is_tuple |-> value.is_tuple, items |-> items]))))

-----------------------------------------------------------------------------
(* consolidate.py: _consolidate_aspects.  `aspects` is a sequence of        *)
(* [name, directory, aspect]: the project (or the project of the            *)
(* FeatureWithProject) and the aspect it contributes.  Items of a dict are  *)
(* visited in a fixed order; entries of different names do not interact.    *)

Put(d, k, v) == IF k \in DOMAIN d THEN [d EXCEPT ![k] = v] ELSE d @@ (k :> v)

\* update_specs applying the constraint at every direct declaration.
update_specs_merged_Reapply(constraints, project_name, dependencies_dict, name, spec) ==
    IF name \in DOMAIN dependencies_dict
    THEN IF name \in DOMAIN constraints /\ dependencies_dict # constraints
         THEN Then(MergedSpec_add(dependencies_dict[name], name, <<project_name>>, spec),
                   LAMBDA m : MergedSpec_add(m, name, constraints[name].sources,
                                             constraints[name].spec))
         ELSE MergedSpec_add(dependencies_dict[name], name, <<project_name>>, spec)
    ELSE IF name \in DOMAIN constraints
    THEN MergedSpec_add(MergedSpec(<<project_name>>, spec), name,
                        constraints[name].sources, constraints[name].spec)
    ELSE Ok(MergedSpec(<<project_name>>, spec))

\* update_specs leaving the projects of the constraint out of the sources.
update_specs_merged_OwnSourceOnly(constraints, project_name, dependencies_dict, name, spec) ==
    IF name \in DOMAIN dependencies_dict
    THEN MergedSpec_add(dependencies_dict[name], name, <<project_name>>, spec)
    ELSE IF name \in DOMAIN constraints
    THEN MergedSpec_add(MergedSpec(<<project_name>>, spec), name, <<>>,
                        constraints[name].spec)
    ELSE Ok(MergedSpec(<<project_name>>, spec))

\* consolidate.py:322-328: the merged spec of one item of update_specs.
update_specs_merged(constraints, project_name, dependencies_dict, name, spec) ==
    IF name \in DOMAIN dependencies_dict
    THEN MergedSpec_add(dependencies_dict[name], name, <<project_name>>, spec)
    ELSE IF name \in DOMAIN constraints
    THEN MergedSpec_add(MergedSpec(<<project_name>>, spec), name,
                        constraints[name].sources, constraints[name].spec)
    ELSE Ok(MergedSpec(<<project_name>>, spec))

RECURSIVE update_specs_items(_, _, _, _, _)
RECURSIVE update_specs_item(_, _, _, _, _, _)
update_specs_item(constraints, project_name, dependencies_dict, specs, names, name) ==
    Then(update_specs_merged(constraints, project_name, dependencies_dict, name,
                             Spec_normalized(specs[name])),
         LAMBDA merged_spec :
            update_specs_items(constraints, project_name,
                               Put(dependencies_dict, name, merged_spec), specs,
                               names \ {name}))

update_specs_items(constraints, project_name, dependencies_dict, specs, names) ==
    IF names = {} THEN Ok(dependencies_dict)
    ELSE update_specs_item(constraints, project_name, dependencies_dict, specs, names,
                           CHOOSE n \in names : TRUE)

\* update_specs (consolidate.py:316-329) for one project's specs.
update_specs(constraints, project_name, dependencies_dict, specs) ==
    update_specs_items(constraints, project_name, dependencies_dict, specs, DOMAIN specs)

\* The constraints pass with every project's constraints taken, whatever the policy.
ConstraintsStep_AlwaysInherit(inherit, starting_name, a, constraints) ==
    update_specs(constraints, a.name, constraints, a.aspect.constraints)

\* consolidate.py:337-344 for one project.  While the constraints dict
\* itself is updated, a name not yet in it has no constraint to seed from.
ConstraintsStep(inherit, starting_name, a, constraints) ==
    IF \/ Inheritance_use_dependencies(inherit, a.name, starting_name)
       \/ Inheritance_use_pypi_dependencies(inherit, a.name, starting_name)
    THEN update_specs(constraints, a.name, constraints, a.aspect.constraints)
    ELSE Ok(constraints)

RECURSIVE ConstraintsLoop(_, _, _, _)
\* consolidate.py:331-344.
ConstraintsLoop(inherit, starting_name, aspects, constraints) ==
    IF aspects = <<>> THEN Ok(constraints)
    ELSE Then(ConstraintsStep(inherit, starting_name, Head(aspects), constraints),
              LAMBDA c : ConstraintsLoop(inherit, starting_name, Tail(aspects), c))

\* The dependencies pass taking every project, whatever the policy says.
DependenciesStep_Always(use, constraints, a, dependencies_dict, specs) ==
    update_specs(constraints, a.name, dependencies_dict, specs)

\* consolidate.py:350-362 for one project, for one of the two dicts.
DependenciesStep(use, constraints, a, dependencies_dict, specs) ==
    IF use THEN update_specs(constraints, a.name, dependencies_dict, specs)
    ELSE Ok(dependencies_dict)

RECURSIVE DependenciesLoop(_, _, _, _, _, _)
\* consolidate.py:346-362.
DependenciesLoop(inherit, starting_name, constraints, aspects, dependencies, pypi_dependencies) ==
    IF aspects = <<>>
    THEN Ok([dependencies |-> dependencies, pypi_dependencies |-> pypi_dependencies])
    ELSE Then(DependenciesStep(
                  Inheritance_use_dependencies(inherit, Head(aspects).name, starting_name),
                  constraints, Head(aspects), dependencies,
                  Head(aspects).aspect.dependencies),
              LAMBDA d :
                 Then(DependenciesStep(
                          Inheritance_use_pypi_dependencies(inherit, Head(aspects).name,
                                                            starting_name),
                          constraints, Head(aspects), pypi_dependencies,
                          Head(aspects).aspect.pypi_dependencies),
                      LAMBDA p :
                         DependenciesLoop(inherit, starting_name, constraints, Tail(aspects),
                                          d, p)))

\* consolidate.py:381-386: merge one resolved variable into the result.
EnvVarMerged(result_env_vars, name, merged) ==
    IF name \in DOMAIN result_env_vars
    THEN MergedEnvVarValue_merge(result_env_vars[name], merged)
    ELSE Ok(merged)

RECURSIVE EnvVarsItems(_, _, _, _, _, _)
RECURSIVE EnvVarsItem(_, _, _, _, _, _, _)
EnvVarsItem(project_name, directory, starting_directory, result_env_vars, env_vars, names, name) ==
    Then(ResolvedEnvVar_resolve(directory, starting_directory, env_vars[name]),
         LAMBDA evaluated_env_var :
            Then(EnvVarMerged(result_env_vars, name,
                              MergedEnvVarValue(<<project_name>>, evaluated_env_var)),
                 LAMBDA m :
                    EnvVarsItems(project_name, directory, starting_directory,
                                 Put(result_env_vars, name, m), env_vars, names \ {name})))

\* consolidate.py:379-386 for one project's env_vars.
EnvVarsItems(project_name, directory, starting_directory, result_env_vars, env_vars, names) ==
    IF names = {} THEN Ok(result_env_vars)
    ELSE EnvVarsItem(project_name, directory, starting_directory, result_env_vars, env_vars,
                     names, CHOOSE n \in names : TRUE)

\* consolidate.py:367-386 for one project.
EnvVarsStep(inherit, starting_name, starting_directory, a, result_env_vars) ==
    IF ~Inheritance_use_env_vars(inherit, a.name, starting_name)
    THEN Ok(result_env_vars)
    ELSE EnvVarsItems(a.name, a.directory, starting_directory, result_env_vars,
                      a.aspect.env_vars, DOMAIN a.aspect.env_vars)

RECURSIVE EnvVarsLoop(_, _, _, _, _)
\* consolidate.py:364-386.
EnvVarsLoop(inherit, starting_name, starting_directory, aspects, result_env_vars) ==
    IF aspects = <<>> THEN Ok(result_env_vars)
    ELSE Then(EnvVarsStep(inherit, starting_name, starting_directory, Head(aspects),
                          result_env_vars),
              LAMBDA r : EnvVarsLoop(inherit, starting_name, starting_directory,
                                     Tail(aspects), r))

ConsolidatedAspect(dependencies, pypi_dependencies, env_vars) ==
    [dependencies |-> dependencies, pypi_dependencies |-> pypi_dependencies,
     env_vars |-> env_vars]

\* _consolidate_aspects with the dependencies dict starting from the constraints.
consolidate_aspects_ConstraintsAsDependencies(starting, aspects) ==
    Then(ConstraintsLoop(starting.inherit, starting.name, aspects, EmptyDict),
         LAMBDA constraints :
            Then(DependenciesLoop(starting.inherit, starting.name, EmptyDict, aspects,
                                  constraints, EmptyDict),
                 LAMBDA deps :
                    Then(EnvVarsLoop(starting.inherit, starting.name, starting.directory,
                                     aspects, EmptyDict),
                         LAMBDA envs :
                            Ok(ConsolidatedAspect(deps.dependencies, deps.pypi_dependencies,
                                                  envs)))))

\* _consolidate_aspects (consolidate.py:312-390).  `starting` is the
\* starting project: [name, directory, inherit, ...].
consolidate_aspects(starting, aspects) ==
    Then(ConstraintsLoop(starting.inherit, starting.name, aspects, EmptyDict),
         LAMBDA constraints :
            Then(DependenciesLoop(starting.inherit, starting.name, constraints, aspects,
                                  EmptyDict, EmptyDict),
                 LAMBDA deps :
                    Then(EnvVarsLoop(starting.inherit, starting.name, starting.directory,
                                     aspects, EmptyDict),
                         LAMBDA envs :
                            Ok(ConsolidatedAspect(deps.dependencies, deps.pypi_dependencies,
                                                  envs)))))

-----------------------------------------------------------------------------
(* consolidate.py: targets, features, consolidate_devenv.  A project is    *)
(* the record parsed from its file together with its name and directory.   *)

\* consolidate.py:403: the aspects of the projects that declare the target.
TargetAspects(projs, target_name) ==
    LET ps == SelectSeq(projs, LAMBDA p : target_name \in DOMAIN p.target)
    IN  [i \in 1..Len(ps) |->
            [name |-> ps[i].name, directory |-> ps[i].directory,
             aspect |-> ps[i].target[target_name]]]

RECURSIVE ConsolidateTargets(_, _, _, _)
RECURSIVE ConsolidateTargetsOne(_, _, _, _, _)
ConsolidateTargetsOne(starting, projs, target_names, consolidated_aspect, target_name) ==
    Then(consolidate_aspects(starting, TargetAspects(projs, target_name)),
         LAMBDA aspect :
            ConsolidateTargets(starting, projs, target_names \ {target_name},
                               Put(consolidated_aspect, target_name, aspect)))

\* consolidate.py:401-405.
ConsolidateTargets(starting, projs, target_names, consolidated_aspect) ==
    IF target_names = {} THEN Ok(consolidated_aspect)
    ELSE ConsolidateTargetsOne(starting, projs, target_names, consolidated_aspect,
                               CHOOSE t \in target_names : TRUE)

\* _consolidate_target (consolidate.py:393-405); projs are Projects or
\* FeatureWithProjects: [name, directory, target].
consolidate_target(starting, projs) ==
    ConsolidateTargets(starting, projs,
                       UNION {DOMAIN projs[i].target : i \in 1..Len(projs)}, EmptyDict)

\* Feature.get_aspect (project.py:145-151).
Feature_get_aspect(f) == Aspect(f.dependencies, f.pypi_dependencies, f.constraints, f.env_vars)

ConsolidatedFeature(dependencies, pypi_dependencies, env_vars, target) ==
    [dependencies |-> dependencies, pypi_dependencies |-> pypi_dependencies,
     env_vars |-> env_vars, target |-> target]

\* ConsolidatedFeature.is_empty (consolidate.py:286-287).
ConsolidatedFeature_is_empty(f) ==
    /\ DOMAIN f.dependencies = {}
    /\ DOMAIN f.pypi_dependencies = {}
    /\ DOMAIN f.env_vars = {}
    /\ DOMAIN f.target = {}

\* consolidate.py:422-425: the projects the feature is inherited from.
FeatureContributors(starting, projs, feature_name) ==
    SelectSeq(projs, LAMBDA p :
        /\ feature_name \in DOMAIN p.feature
        /\ Inheritance_use_feature(starting.inherit, feature_name, p.name, starting.name,
                                   DOMAIN starting.feature))

\* consolidate.py:436-437 without the is_empty test.
PutUnlessEmpty_Always(result, feature_name, consolidated_feature) ==
    Put(result, feature_name, consolidated_feature)

\* consolidate.py:436-437.
PutUnlessEmpty(result, feature_name, consolidated_feature) ==
    IF ConsolidatedFeature_is_empty(consolidated_feature) THEN result
    ELSE Put(result, feature_name, consolidated_feature)

RECURSIVE ConsolidateFeatures(_, _, _, _)
RECURSIVE ConsolidateFeaturesOne(_, _, _, _, _, _)
ConsolidateFeaturesOne(starting, projs, feature_names, result, feature_name, ps) ==
    Then(consolidate_aspects(starting,
             [i \in 1..Len(ps) |->
                 [name |-> ps[i].name, directory |-> ps[i].directory,
                  aspect |-> Feature_get_aspect(ps[i].feature[feature_name])]]),
         LAMBDA aspect :
            Then(consolidate_target(starting,
                     [i \in 1..Len(ps) |->
                         [name |-> ps[i].name, directory |-> ps[i].directory,
                          target |-> ps[i].feature[feature_name].target]]),
                 LAMBDA target :
                    ConsolidateFeatures(starting, projs, feature_names \ {feature_name},
                        PutUnlessEmpty(result, feature_name,
                            ConsolidatedFeature(aspect.dependencies, aspect.pypi_dependencies,
                                                aspect.env_vars, target)))))

\* consolidate.py:417-438.
ConsolidateFeatures(starting, projs, feature_names, result) ==
    IF feature_names = {} THEN Ok(result)
    ELSE ConsolidateFeaturesOne(starting, projs, feature_names, result,
             CHOOSE f \in feature_names : TRUE,
             FeatureContributors(starting, projs, CHOOSE f \in feature_names : TRUE))

\* _consolidate_feature (consolidate.py:408-438); projs is iter_downstream().
consolidate_feature(starting, projs) ==
    ConsolidateFeatures(starting, projs,
                        UNION {DOMAIN projs[i].feature : i \in 1..Len(projs)}, EmptyDict)

RECURSIVE LastNonEmpty_FirstWins(_, _, _)
\* consolidate.py:73-80 keeping the first non-empty list met.
LastNonEmpty_FirstWins(projs, field, current) ==
    IF projs = <<>> THEN current
    ELSE LastNonEmpty_FirstWins(Tail(projs), field,
                                IF current = <<>> THEN Head(projs)[field] ELSE current)

RECURSIVE LastNonEmpty(_, _, _)
\* consolidate.py:73-80, for one of channels and platforms.
LastNonEmpty(projs, field, current) ==
    IF projs = <<>> THEN current
    ELSE LastNonEmpty(Tail(projs), field,
                      IF Head(projs)[field] # <<>> THEN Head(projs)[field] ELSE current)

\* The project stored under `name` in the projects dict: what its file
\* holds, with the name and the directory Project.from_file gave it.
LoadedProject(fs, w, name) ==
    [name |-> name,
     directory |-> w.projects[CHOOSE i \in 1..Len(w.projects) :
                                 w.projects[i].name = name].directory,
     channels |-> fs[name].channels, platforms |-> fs[name].platforms,
     upstream |-> fs[name].upstream,
     dependencies |-> fs[name].dependencies,
     pypi_dependencies |-> fs[name].pypi_dependencies,
     constraints |-> fs[name].constraints, env_vars |-> fs[name].env_vars,
     target |-> fs[name].target, feature |-> fs[name].feature,
     inherit |-> fs[name].inherit]

\* Workspace.iter_downstream (workspace.py:61-62).
Workspace_iter_downstream(fs, w) ==
    [i \in 1..Len(w.upstream_to_downstream_order) |->
        LoadedProject(fs, w, w.upstream_to_downstream_order[i])]

\* Workspace.iter_upstream (workspace.py:64-65).
Workspace_iter_upstream(fs, w) == Reverse(Workspace_iter_downstream(fs, w))

\* consolidate.py:66-91, given the starting project and iter_downstream().
ConsolidateFrom(starting, projs) ==
    Then(consolidate_aspects(starting,
             [i \in 1..Len(projs) |->
                 [name |-> projs[i].name, directory |-> projs[i].directory,
                  aspect |-> Project_get_root_aspect(projs[i])]]),
         LAMBDA root_aspect :
            Then(consolidate_target(starting, projs),
                 LAMBDA consolidated_target :
                    Then(consolidate_feature(starting, projs),
                         LAMBDA consolidated_feature :
                            Ok([name |-> starting.name,
                                channels |-> LastNonEmpty(projs, "channels", <<>>),
                                platforms |-> LastNonEmpty(projs, "platforms", <<>>),
                                dependencies |-> root_aspect.dependencies,
                                pypi_dependencies |-> root_aspect.pypi_dependencies,
                                env_vars |-> root_aspect.env_vars,
                                target |-> consolidated_target,
                                feature |-> consolidated_feature]))))

\* consolidate_devenv (consolidate.py:61-91).
consolidate_devenv(fs, w) ==
    ConsolidateFrom(LoadedProject(fs, w, w.starting_project), Workspace_iter_downstream(fs, w))

-----------------------------------------------------------------------------
(* workspace.py: Workspace *)

StartName == "app"

\* The directory of the starting file, as devenv_file.absolute().parent.
StartDirectory == <<"/", "work", StartName>>

\* The path an upstream entry holds: the projects are sibling directories.
UpstreamPath(name) == <<"..", name>>

\* A loaded Project: what its file holds is files[name]; the name and the
\* directory are set by Project.from_file (project.py:309-310).
Loaded(name, directory) == [name |-> name, directory |-> directory]

Names(projs) == [i \in 1..Len(projs) |-> projs[i].name]

Workspace(starting_project, projs, g, order) ==
    [starting_project |-> starting_project, projects |-> projs, graph |-> g,
     upstream_to_downstream_order |-> order]

\* from_starting_file with the sort left out: the order the projects were visited in.
Workspace_sorted_VisitOrder(projs, g) ==
    Ok(Workspace(StartName, projs, g, Names(projs)))

\* from_starting_file with the order reversed: downstream first.
Workspace_sorted_Reversed(projs, g) ==
    LET r == TS_static_order(Names(projs), g)
    IN  IF r.ok
        THEN Ok(Workspace(StartName, projs, g, Reverse(r.val)))
        ELSE [ok |-> FALSE, error |-> "DevEnvError",
              msg |-> "DevEnv dependencies are in a cycle", cycle |-> r.cycle]

\* from_starting_file with the CycleError swallowed: the visit order is kept.
Workspace_sorted_NoCycleError(projs, g) ==
    LET r == TS_static_order(Names(projs), g)
    IN  IF r.ok
        THEN Ok(Workspace(StartName, projs, g, r.val))
        ELSE Ok(Workspace(StartName, projs, g, Names(projs)))

\* The end of from_starting_file (workspace.py:54-59): sort, or fail on a
\* cycle.  projs is the projects dict, g the graph dict (same keys, same order).
Workspace_sorted(projs, g) ==
    LET r == TS_static_order(Names(projs), g)
    IN  IF r.ok
        THEN Ok(Workspace(StartName, projs, g, r.val))
        ELSE [ok |-> FALSE, error |-> "DevEnvError",
              msg |-> "DevEnv dependencies are in a cycle", cycle |-> r.cycle]

-----------------------------------------------------------------------------
(* The files on disk.  A file is read when Project.from_file first loads   *)
(* it; what it holds is an input, drawn from the universe of the mode and  *)
(* remembered in `files`.                                                  *)

\* Bound on the number of upstream entries of all files together (mode "ws").
MaxEdges == 5

ProjectNames == {"app", "a", "b", "c"}

ReservedKeyFiles ==
    {[DefaultProject EXCEPT !.name_key = TRUE],
     [DefaultProject EXCEPT !.environments_key = TRUE],
     [DefaultProject EXCEPT !.name_key = TRUE, !.environments_key = TRUE]}

\* Mode "ws": any upstream graph over ProjectNames, nothing else declared.
UniverseWs ==
    {[DefaultProject EXCEPT !.upstream = u] : u \in Arrangements(ProjectNames)}
        \cup ReservedKeyFiles

\* The upstream lists of the modes that exercise the consolidation: app is
\* downstream of a, or of a and b; a may be downstream of b.
SmallUpstream(name) ==
    CASE name = "app" -> {<<"a">>, <<"a", "b">>, <<"b", "a">>}
      [] name = "a" -> {<<>>, <<"b">>}
      [] OTHER -> {<<>>}

\* Raw env-var strings: "{devenv_project_dir}/src", "310" and
\* "{devenv_project_dir}/artifacts-$CONDA_PY".
RawSrc == <<Field("devenv_project_dir"), Lit("/src")>>

RawPlain == <<Lit("310")>>

RawArtifacts == <<Field("devenv_project_dir"), Lit("/artifacts-$CONDA_PY")>>

EnvVarTables ==
    {EmptyDict,
     "V" :> StrValue(RawSrc),
     "V" :> StrValue(RawPlain),
     "V" :> TupleValue(<<RawSrc>>),
     "V" :> TupleValue(<<RawSrc, RawArtifacts>>)}

StartPolicies ==
    {Bool(TRUE), Bool(FALSE), Include(<<"a">>), Include(<<"b">>), Exclude(<<"a">>),
     Exclude(<<"app", "b">>)}

\* Mode "envs": env-vars on up to three projects, with an env-vars policy.
UniverseEnvs(name) ==
    {[DefaultProject EXCEPT !.upstream = u, !.env_vars = e, !.inherit.env_vars = p] :
        u \in SmallUpstream(name), e \in EnvVarTables,
        p \in (CASE name = "app" -> StartPolicies
                 [] name = "a" -> {Bool(TRUE), Bool(FALSE)}
                 [] OTHER -> {Bool(TRUE)})}

\* What project `name` declares in mode "policy": one conda dependency, one
\* pypi dependency and one env-var.
Declares(name) ==
    [DefaultProject EXCEPT
        !.dependencies = "lib" :> StrSpec(">=" \o name),
        !.pypi_dependencies = "pip" :> StrSpec("*"),
        !.env_vars = "V" :> StrValue(<<Lit(name)>>)]

\* Mode "policy": every project declares the same names; the starting
\* project sets a policy per aspect, and project a sets policies of its own.
UniversePolicy(name) ==
    CASE name = "app" ->
           {[Declares(name) EXCEPT !.upstream = u, !.inherit.dependencies = d,
                                   !.inherit.pypi_dependencies = p, !.inherit.env_vars = e] :
               u \in SmallUpstream(name), d \in StartPolicies, p \in StartPolicies,
               e \in StartPolicies}
      [] name = "a" ->
           {[Declares(name) EXCEPT !.upstream = u, !.inherit.dependencies = d,
                                   !.inherit.pypi_dependencies = d, !.inherit.env_vars = d] :
               u \in SmallUpstream(name), d \in {Bool(TRUE), Bool(FALSE)}}
      [] OTHER -> {Declares(name)}

\* The tables of mode "deps": dependency lib with a version that names the
\* project, constraints on lib and on foobar, which nobody depends on.
DepTables(name) == {EmptyDict, "lib" :> StrSpec("*"), "lib" :> StrSpec(">=" \o name)}

PypiTables(name) == {EmptyDict, "lib" :> StrSpec("==" \o name)}

ConstraintTables(name) ==
    {EmptyDict, "lib" :> StrSpec("<" \o name),
     ("lib" :> StrSpec("<" \o name)) @@ ("foobar" :> StrSpec("1.0"))}

DepsPolicies ==
    {<<Bool(TRUE), Bool(TRUE)>>, <<Bool(FALSE), Bool(FALSE)>>, <<Bool(FALSE), Bool(TRUE)>>,
     <<Include(<<"b">>), Bool(FALSE)>>, <<Exclude(<<"b">>), Exclude(<<"a">>)>>}

\* Mode "deps": dependencies, pypi-dependencies and constraints on up to
\* three projects, with the starting project's policies for the two kinds.
UniverseDeps(name) ==
    CASE name = "app" ->
           {[DefaultProject EXCEPT !.upstream = u, !.dependencies = d,
                                   !.pypi_dependencies = p, !.constraints = c,
                                   !.inherit.dependencies = pol[1],
                                   !.inherit.pypi_dependencies = pol[2]] :
               u \in SmallUpstream(name), d \in DepTables(name) \ {"lib" :> StrSpec("*")},
               p \in PypiTables(name), c \in {EmptyDict, "lib" :> StrSpec("<" \o name)},
               pol \in DepsPolicies}
      [] name = "a" ->
           {[DefaultProject EXCEPT !.upstream = u, !.dependencies = d,
                                   !.pypi_dependencies = p, !.constraints = c] :
               u \in SmallUpstream(name), d \in DepTables(name), p \in PypiTables(name),
               c \in ConstraintTables(name) \ {"lib" :> StrSpec("<" \o name)}}
      [] OTHER ->
           {[DefaultProject EXCEPT !.dependencies = d, !.constraints = c] :
               d \in DepTables(name) \ {"lib" :> StrSpec("*")},
               c \in ConstraintTables(name)}

\* What project `name` declares as feature f in mode "feat".
FeatureOf(name) ==
    Feature("lib" :> StrSpec(">=" \o name), EmptyDict, EmptyDict, EmptyDict, EmptyDict)

EmptyFeature == Feature(EmptyDict, EmptyDict, EmptyDict, EmptyDict, EmptyDict)

\* A feature that declares a dependency for target win and nothing else.
TargetOnlyFeature(name) ==
    Feature(EmptyDict, EmptyDict, EmptyDict, EmptyDict,
            "win" :> Aspect("lib" :> StrSpec(">=" \o name), EmptyDict, EmptyDict, EmptyDict))

FeaturePolicies ==
    {EmptyDict, "f" :> Bool(TRUE), "f" :> Bool(FALSE), "f" :> Include(<<"a">>),
     "f" :> Include(<<>>), "f" :> Exclude(<<"a">>)}

\* Mode "feat": feature f on up to three projects; the starting project
\* declares it or not, and sets inherit.features and inherit.dependencies.
UniverseFeat(name) ==
    CASE name = "app" ->
           {[DefaultProject EXCEPT !.upstream = u, !.feature = f, !.inherit.features = p,
                                   !.inherit.dependencies = d] :
               u \in SmallUpstream(name), f \in {EmptyDict, "f" :> FeatureOf(name)},
               p \in FeaturePolicies, d \in {Bool(TRUE), Bool(FALSE)}}
      [] name = "a" ->
           {[DefaultProject EXCEPT !.upstream = u, !.feature = f] :
               u \in SmallUpstream(name),
               f \in {EmptyDict, "f" :> FeatureOf(name), "f" :> EmptyFeature,
                      "f" :> TargetOnlyFeature(name)}}
      [] OTHER ->
           {[DefaultProject EXCEPT !.feature = f] : f \in {EmptyDict, "f" :> FeatureOf(name)}}

\* The target tables of mode "plat": what a project declares for the
\* selectors win and unix.
TargetTables(name) ==
    {EmptyDict,
     "win" :> Aspect("pywin32" :> StrSpec(">=" \o name), EmptyDict, EmptyDict, EmptyDict),
     ("win" :> Aspect("pywin32" :> StrSpec(">=" \o name), EmptyDict, EmptyDict, EmptyDict))
       @@ ("unix" :> Aspect("libx11" :> StrSpec(">=" \o name), EmptyDict, EmptyDict, EmptyDict))}

ChannelLists(name) == {<<>>, <<"channel-" \o name>>}

PlatformChoices(name) ==
    CASE name = "app" -> {<<>>, <<"linux-64">>, <<"win-64">>}
      [] name = "a" -> {<<>>, <<"linux-64", "win-64">>}
      [] OTHER -> {<<>>, <<"osx-64">>}

\* Mode "plat": channels, platforms, targets and the targets of feature f on
\* up to three projects.
UniversePlat(name) ==
    CASE name = "app" ->
           {[DefaultProject EXCEPT !.upstream = u, !.channels = c, !.platforms = p,
                                   !.feature = f] :
               u \in SmallUpstream(name), c \in ChannelLists(name),
               p \in PlatformChoices(name), f \in {EmptyDict, "f" :> FeatureOf(name)}}
      [] name = "a" ->
           {[DefaultProject EXCEPT !.upstream = u, !.channels = c, !.platforms = p,
                                   !.target = t, !.feature = f] :
               u \in SmallUpstream(name), c \in ChannelLists(name),
               p \in PlatformChoices(name), t \in TargetTables(name),
               f \in {EmptyDict} \cup
                        {"f" :> Feature("lib" :> StrSpec(">=" \o name), EmptyDict, EmptyDict,
                                        EmptyDict, ft) :
                           ft \in TargetTables(name) \ {EmptyDict}}}
      [] OTHER ->
           {[DefaultProject EXCEPT !.channels = c, !.platforms = p, !.target = t] :
               c \in ChannelLists(name), p \in PlatformChoices(name),
               t \in TargetTables(name) \ {EmptyDict}}

\* Mode "build": constraints and dependencies on lib that carry a build or
\* a channel, on up to three projects.
UniverseBuild(name) ==
    CASE name = "app" ->
           {[DefaultProject EXCEPT !.upstream = u, !.dependencies = d, !.constraints = c] :
               u \in SmallUpstream(name),
               d \in {EmptyDict, "lib" :> TableSpec(">=" \o name, "b1", "")},
               c \in {EmptyDict, "lib" :> TableSpec("*", "b1", "ch1")}}
      [] name = "a" ->
           {[DefaultProject EXCEPT !.upstream = u, !.pypi_dependencies = d, !.constraints = c] :
               u \in SmallUpstream(name),
               d \in {EmptyDict, "lib" :> StrSpec("*")},
               c \in {EmptyDict, "lib" :> TableSpec("<" \o name, "b1", ""),
                      "lib" :> TableSpec("<" \o name, "", "ch1")}}
      [] OTHER ->
           {[DefaultProject EXCEPT !.constraints = c] :
               c \in {EmptyDict, "lib" :> TableSpec("<" \o name, "b2", ""),
                      "lib" :> TableSpec("<" \o name, "", "ch2"),
                      "lib" :> StrSpec("<" \o name)}}

\* What project `name` declares as feature f in mode "gates": a dependency,
\* a pypi dependency and an env-var, at the feature's root and for target win.
RichFeature(name) ==
    Feature("lib" :> StrSpec(">=" \o name), "pip" :> StrSpec("==" \o name), EmptyDict,
            "V" :> StrValue(<<Lit(name)>>),
            "win" :> Aspect("lib" :> StrSpec(">=" \o name), "pip" :> StrSpec("==" \o name),
                            EmptyDict, "V" :> StrValue(<<Lit(name)>>)))

GatePolicies == {Bool(TRUE), Bool(FALSE), Include(<<"a">>)}

\* Mode "gates": feature f on up to three projects; the starting project
\* sets inherit.features and a policy for each aspect.
UniverseGates(name) ==
    CASE name = "app" ->
           {[DefaultProject EXCEPT !.upstream = u, !.feature = f, !.inherit.features = p,
                                   !.inherit.dependencies = d,
                                   !.inherit.pypi_dependencies = y, !.inherit.env_vars = e] :
               u \in SmallUpstream(name), f \in {EmptyDict, "f" :> RichFeature(name)},
               p \in {EmptyDict, "f" :> Bool(TRUE), "f" :> Bool(FALSE), "f" :> Include(<<"b">>)},
               d \in GatePolicies, y \in GatePolicies, e \in GatePolicies}
      [] name = "a" ->
           {[DefaultProject EXCEPT !.upstream = u, !.feature = f] :
               u \in SmallUpstream(name), f \in {EmptyDict, "f" :> RichFeature(name)}}
      [] OTHER ->
           {[DefaultProject EXCEPT !.feature = f] : f \in {EmptyDict, "f" :> RichFeature(name)}}

Universe(m, name) ==
    CASE m = "ws" -> UniverseWs
      [] m = "gates" -> UniverseGates(name)
      [] m = "build" -> UniverseBuild(name)
      [] m = "plat" -> UniversePlat(name)
      [] m = "feat" -> UniverseFeat(name)
      [] m = "envs" -> UniverseEnvs(name)
      [] m = "policy" -> UniversePolicy(name)
      [] m = "deps" -> UniverseDeps(name)
      [] OTHER -> {}

RECURSIVE SumOver(_, _)
SumOver(S, f) ==
    IF S = {} THEN 0
    ELSE LET x == CHOOSE y \in S : TRUE IN f[x] + SumOver(S \ {x}, f)

Edges(fs) == SumOver(DOMAIN fs, [n \in DOMAIN fs |-> Len(fs[n].upstream)])

\* What the file of project `name`, not read before, may hold, given the
\* files read so far.
Readable(m, fs, name) ==
    {c \in Universe(m, name) : m = "ws" => Edges(fs) + Len(c.upstream) <= MaxEdges}

-----------------------------------------------------------------------------
(* update.py:33, workspace.py:31-59 and consolidate.py:61-91, step by step *)

InitPipeline ==
    /\ files = EmptyDict
    /\ pc = "start"
    /\ to_process = <<>>
    /\ projects = <<>>
    /\ graph = EmptyDict
    /\ project = Loaded("", <<>>)
    /\ upstream_i = 0
    /\ ws = NotYet
    /\ consolidated = NotYet
    /\ UnitIdle

\* workspace.py:36-39: load the starting file and set up the work list.
StartFromFile ==
    /\ pc = "start"
    /\ \E c \in Readable(mode, files, StartName) :
         LET r == Project_from_file(StartName, c)
         IN  /\ files' = (StartName :> c)
             /\ IF r.ok
                THEN /\ to_process' = <<Loaded(StartName, StartDirectory)>>
                     /\ pc' = "while"
                     /\ ws' = ws
                ELSE /\ to_process' = <<>>
                     /\ pc' = "failed"
                     /\ ws' = r
    /\ UNCHANGED <<mode, unitVars, projects, graph, project, upstream_i, consolidated>>

\* workspace.py:40-45 without the test for a known name.
Pop_Revisit ==
    /\ pc = "while"
    /\ to_process # <<>>
    /\ LET p == to_process[Len(to_process)]
       IN  /\ project' = p
           /\ to_process' = SubSeq(to_process, 1, Len(to_process) - 1)
           /\ projects' = Append(projects, p)
           /\ graph' = Put(graph, p.name, <<>>)
           /\ upstream_i' = 1
           /\ pc' = IF files[p.name].upstream = <<>> THEN "while" ELSE "for"
    /\ UNCHANGED <<mode, unitVars, files, ws, consolidated>>

\* workspace.py:40-45: pop a project; a known name is skipped, a new one is
\* registered with an empty upstream list.
Pop ==
    /\ pc = "while"
    /\ to_process # <<>>
    /\ LET p == to_process[Len(to_process)]
       IN  /\ project' = p
           /\ to_process' = SubSeq(to_process, 1, Len(to_process) - 1)
           /\ IF InSeq(p.name, Names(projects))
              THEN UNCHANGED <<projects, graph, upstream_i, pc>>
              ELSE /\ projects' = Append(projects, p)
                   /\ graph' = graph @@ (p.name :> <<>>)
                   /\ upstream_i' = 1
                   /\ pc' = IF files[p.name].upstream = <<>> THEN "while" ELSE "for"
    /\ UNCHANGED <<mode, unitVars, files, ws, consolidated>>

\* workspace.py:47-52: load the next upstream of `project`, push it and
\* record the edge.
LoadUpstream ==
    /\ pc = "for"
    /\ LET u == files[project.name].upstream[upstream_i]
       IN  \E c \in (IF u \in DOMAIN files THEN {files[u]} ELSE Readable(mode, files, u)) :
             LET r == Project_from_file(u, c)
             IN  /\ files' = IF u \in DOMAIN files THEN files ELSE files @@ (u :> c)
                 /\ IF r.ok
                    THEN /\ to_process' =
                              Append(to_process,
                                     Loaded(r.val, project.directory \o UpstreamPath(u)))
                         /\ graph' = [graph EXCEPT ![project.name] = Append(@, r.val)]
                         /\ upstream_i' = upstream_i + 1
                         /\ pc' = IF upstream_i = Len(files[project.name].upstream)
                                  THEN "while" ELSE "for"
                         /\ ws' = ws
                    ELSE /\ pc' = "failed"
                         /\ ws' = r
                         /\ UNCHANGED <<to_process, graph, upstream_i>>
    /\ UNCHANGED <<mode, unitVars, projects, project, consolidated>>

\* workspace.py:54-59: the work list is empty; sort the graph.
Sort ==
    /\ pc = "while"
    /\ to_process = <<>>
    /\ ws' = Workspace_sorted(projects, graph)
    /\ pc' = IF ws'.ok THEN "built" ELSE "failed"
    /\ UNCHANGED <<mode, unitVars, files, to_process, projects, graph, project, upstream_i,
                   consolidated>>

\* update.py:33: consolidate the workspace that was built.
Consolidate ==
    /\ pc = "built"
    /\ consolidated' = consolidate_devenv(files, ws.val)
    /\ pc' = IF consolidated'.ok THEN "done" ELSE "failed"
    /\ UNCHANGED <<mode, unitVars, files, to_process, projects, graph, project, upstream_i, ws>>

NextUpdate == StartFromFile \/ Pop \/ LoadUpstream \/ Sort \/ Consolidate

InitWs == mode = "ws" /\ InitPipeline

SpecWs == InitWs /\ [][NextUpdate]_vars

InitEnvs == mode = "envs" /\ InitPipeline

InitPolicy == mode = "policy" /\ InitPipeline

SpecEnvs == (InitEnv \/ InitEnvs) /\ [][NextEnv \/ NextUpdate]_vars

SpecPolicy == InitPolicy /\ [][NextUpdate]_vars

InitDeps == mode = "deps" /\ InitPipeline

SpecDeps == InitDeps /\ [][NextUpdate]_vars

InitFeat == mode = "feat" /\ InitPipeline

SpecFeat == InitFeat /\ [][NextUpdate]_vars

InitPlat == mode = "plat" /\ InitPipeline

SpecPlat == InitPlat /\ [][NextUpdate]_vars

InitBuild == mode = "build" /\ InitPipeline

SpecBuild == InitBuild /\ [][NextUpdate]_vars

InitGates == mode = "gates" /\ InitPipeline

SpecGates == InitGates /\ [][NextUpdate]_vars

-----------------------------------------------------------------------------
(* consolidate.py: target_matches_platforms.  The tests import it from     *)
(* pixi_devenv.consolidate (tests/test_consolidate.py:4, 11-37); a string  *)
(* is the sequence of its characters.                                      *)

UpperCase ==
    <<"A", "B", "C", "D", "E", "F", "G", "H", "I", "J", "K", "L", "M",
      "N", "O", "P", "Q", "R", "S", "T", "U", "V", "W", "X", "Y", "Z">>

LowerCase ==
    <<"a", "b", "c", "d", "e", "f", "g", "h", "i", "j", "k", "l", "m",
      "n", "o", "p", "q", "r", "s", "t", "u", "v", "w", "x", "y", "z">>

\* str.lower().
str_lower(s) ==
    [i \in 1..Len(s) |->
        IF \E k \in 1..Len(UpperCase) : UpperCase[k] = s[i]
        THEN LowerCase[CHOOSE k \in 1..Len(UpperCase) : UpperCase[k] = s[i]]
        ELSE s[i]]

\* str.startswith(prefix).
str_startswith(s, prefix) == IsPrefix(prefix, s)

\* The characters of the names the model uses.
Chars(s) ==
    CASE s = "win" -> <<"w", "i", "n">>
      [] s = "WIN" -> <<"W", "I", "N">>
      [] s = "windows" -> <<"w", "i", "n", "d", "o", "w", "s">>
      [] s = "Windows" -> <<"W", "i", "n", "d", "o", "w", "s">>
      [] s = "linux" -> <<"l", "i", "n", "u", "x">>
      [] s = "Linux" -> <<"L", "i", "n", "u", "x">>
      [] s = "osx" -> <<"o", "s", "x">>
      [] s = "macos" -> <<"m", "a", "c", "o", "s">>
      [] s = "MacOS" -> <<"M", "a", "c", "O", "S">>
      [] s = "unix" -> <<"u", "n", "i", "x">>
      [] s = "Unix" -> <<"U", "n", "i", "x">>
      [] s = "bsd" -> <<"b", "s", "d">>
      [] s = "win-64" -> <<"w", "i", "n", "-", "6", "4">>
      [] s = "linux-64" -> <<"l", "i", "n", "u", "x", "-", "6", "4">>
      [] s = "osx-64" -> <<"o", "s", "x", "-", "6", "4">>
      [] s = "osx-arm64" -> <<"o", "s", "x", "-", "a", "r", "m", "6", "4">>
      [] s = "WIN-64" -> <<"W", "I", "N", "-", "6", "4">>

\* target_matches_platforms with unix matching every non-empty platform list.
target_matches_platforms_UnixAlways(target_name, platforms) ==
    IF platforms = <<>> THEN TRUE
    ELSE IF InSeq(target_name, platforms) THEN TRUE
    ELSE LET t == str_lower(target_name)
         IN  CASE t \in {Chars("win"), Chars("windows")} ->
                    \E i \in 1..Len(platforms) : str_startswith(platforms[i], Chars("win"))
               [] t = Chars("linux") ->
                    \E i \in 1..Len(platforms) : str_startswith(platforms[i], Chars("linux"))
               [] t \in {Chars("osx"), Chars("macos")} ->
                    \E i \in 1..Len(platforms) : str_startswith(platforms[i], Chars("osx"))
               [] t = Chars("unix") -> TRUE
               [] OTHER -> FALSE

\* target_matches_platforms(target_name, platforms).
target_matches_platforms(target_name, platforms) ==
    IF platforms = <<>> THEN TRUE
    ELSE IF InSeq(target_name, platforms) THEN TRUE
    ELSE LET t == str_lower(target_name)
         IN  CASE t \in {Chars("win"), Chars("windows")} ->
                    \E i \in 1..Len(platforms) : str_startswith(platforms[i], Chars("win"))
               [] t = Chars("linux") ->
                    \E i \in 1..Len(platforms) : str_startswith(platforms[i], Chars("linux"))
               [] t \in {Chars("osx"), Chars("macos")} ->
                    \E i \in 1..Len(platforms) : str_startswith(platforms[i], Chars("osx"))
               [] t = Chars("unix") ->
                    \E i \in 1..Len(platforms) : ~str_startswith(platforms[i], Chars("win"))
               [] OTHER -> FALSE

-----------------------------------------------------------------------------
(* Unit level: calls of target_matches_platforms.                          *)

MaxPlatforms == 2

TargetNames ==
    {Chars(s) : s \in {"win", "WIN", "windows", "Windows", "linux", "Linux", "osx", "macos",
                       "MacOS", "unix", "Unix", "bsd", "linux-64", "win-64"}}

PlatformNames == {Chars(s) : s \in {"win-64", "linux-64", "osx-64", "osx-arm64", "WIN-64"}}

PlatformLists == UNION {[1..n -> PlatformNames] : n \in 0..MaxPlatforms}

InitMatch ==
    /\ mode = "match"
    /\ acc = NoAcc
    /\ call = NoCall
    /\ PipelineIdle

MatchCall ==
    /\ mode = "match"
    /\ \E t \in TargetNames, ps \in PlatformLists :
         call' = [fn |-> "target_matches_platforms", target_name |-> t, platforms |-> ps,
                  ret |-> target_matches_platforms(t, ps)]
    /\ UNCHANGED <<mode, acc, buildVars>>

NextMatch == MatchCall

SpecMatch == InitMatch /\ [][NextMatch]_vars

-----------------------------------------------------------------------------
(* C1: MergedSpec.add version rule.  After every successful add the merged  *)
(* version is "*" exactly when both input versions are "*"; with exactly    *)
(* one wildcard it is the other version unchanged; with none it is          *)
(* "<current>,<new>", current first.                                        *)

AddReturned == call.fn = "MergedSpec.add" /\ call.ret.ok

C1_VersionRule ==
    AddReturned =>
        LET cur == call.self.spec.version
            new == call.spec.version
            out == call.ret.val.spec.version
        IN  /\ (out = "*") <=> (cur = "*" /\ new = "*")
            /\ (cur = "*" /\ new # "*") => out = new
            /\ (cur # "*" /\ new = "*") => out = cur
            /\ (cur # "*" /\ new # "*") => out = cur \o "," \o new

\* A non-wildcard running version that already holds a join meets a wildcard.
C1_Witness ==
    /\ AddReturned
    /\ call.self.spec.version = ">=1.0,<2"
    /\ call.spec.version = "*"
    /\ call.ret.val.spec.version = ">=1.0,<2"

(* C2: MergedSpec.add build/channel rule.  The call raises DevEnvError      *)
(* exactly when build, or channel, is non-empty on both sides and differs;  *)
(* otherwise each field is the current value when non-empty, else the new.  *)

Clash(x, y) == x # "" /\ y # "" /\ x # y

-----------------------------------------------------------------------------
(* What the env-var claims speak of, stated from the files and the order   *)
(* of the workspace that was built.                                        *)

MergeCalled == call.fn = "MergedEnvVarValue.merge"

\* consolidate_devenv has run on the workspace that was built.
ConsolidateRan == ws.ok /\ pc \in {"done", "failed"}

\* The starting project's policy lets project n contribute: n is the
\* starting project, or the policy is true, or an include-list naming n, or
\* an exclude-list not naming n.
PolicyAllows(policy, n) ==
    \/ policy.kind = "bool" /\ policy.value
    \/ policy.kind = "include" /\ \E i \in 1..Len(policy.names) : policy.names[i] = n
    \/ policy.kind = "exclude" /\ \A i \in 1..Len(policy.names) : policy.names[i] # n

\* The projects whose declaration of env-var V is consolidated, upstream first.
EnvContributors ==
    SelectInOrder(ws.val.upstream_to_downstream_order,
                  {n \in DOMAIN files :
                      /\ "V" \in DOMAIN files[n].env_vars
                      /\ n = StartName \/ PolicyAllows(files[StartName].inherit.env_vars, n)})

\* The directory of a project of the workspace.
DirectoryOf(n) ==
    ws.val.projects[CHOOSE i \in 1..Len(ws.val.projects) : ws.val.projects[i].name = n].directory

\* The value project n declares for V, with its placeholders resolved.
DeclaredV(n) == ResolvedEnvVar_resolve(DirectoryOf(n), StartDirectory, files[n].env_vars["V"]).val

(* C3: list-valued env-var merge order.  merge(older, newer) on two lists   *)
(* yields the newer items followed by the older items, and the consolidated *)
(* list of a variable declared by several included projects reads           *)
(* most-downstream project first, most-upstream project last.               *)
(* The code concatenates the older items before the newer ones              *)
(* (consolidate.py:240), so this is violated by the first merge of lists.   *)
C3_NewerItemsFirst ==
    /\ (MergeCalled /\ call.self.var.value.is_tuple /\ call.other.var.value.is_tuple) =>
          /\ call.ret.ok
          /\ call.ret.val.var.value.items =
                call.other.var.value.items \o call.self.var.value.items
    /\ (mode = "envs" /\ pc = "done" /\ "V" \in DOMAIN consolidated.val.env_vars
          /\ consolidated.val.env_vars["V"].var.value.is_tuple) =>
          consolidated.val.env_vars["V"].var.value.items =
             Flatten([i \in 1..Len(EnvContributors) |->
                         DeclaredV(Reverse(EnvContributors)[i]).value.items])

(* C4: scalar env-var merge replaces.  merge(older, newer) on two scalars   *)
(* is the newer value with sources older.sources then newer.sources; the    *)
(* consolidated value of a scalar variable is the one declared by the       *)
(* most-downstream included project that declares it.                       *)
C4_ScalarReplaces ==
    /\ (MergeCalled /\ ~call.self.var.value.is_tuple /\ ~call.other.var.value.is_tuple) =>
          call.ret = Ok(MergedEnvVarValue(call.self.sources \o call.other.sources,
                                          call.other.var))
    /\ (mode = "envs" /\ pc = "done") =>
          /\ ("V" \in DOMAIN consolidated.val.env_vars) <=> (EnvContributors # <<>>)
          /\ ("V" \in DOMAIN consolidated.val.env_vars
                /\ ~consolidated.val.env_vars["V"].var.value.is_tuple) =>
                consolidated.val.env_vars["V"] =
                   MergedEnvVarValue(EnvContributors,
                                     DeclaredV(EnvContributors[Len(EnvContributors)]))

\* Three projects declare the scalar; the starting project's value, which
\* differs from the upstream ones, is the consolidated one.
C4_Witness ==
    /\ mode = "envs" /\ pc = "done"
    /\ EnvContributors = <<"b", "a", "app">>
    /\ files["b"].env_vars["V"] = StrValue(RawSrc)
    /\ files["a"].env_vars["V"] = StrValue(RawSrc)
    /\ files["app"].env_vars["V"] = StrValue(RawPlain)
    /\ consolidated.val.env_vars["V"].var.value.items = <<"310">>

\* Two contributors of V have different shapes.
MixedShapes ==
    \E i, j \in 1..Len(EnvContributors) :
        files[EnvContributors[i]].env_vars["V"].is_tuple
            # files[EnvContributors[j]].env_vars["V"].is_tuple

(* C5: env-var shape mismatch is fatal in both directions.  Merging a       *)
(* scalar with a list fails with DevEnvError whichever of the two is the    *)
(* older, and consolidate_devenv then returns no result.                    *)
C5_ShapeMismatchFatal ==
    /\ (MergeCalled /\ call.self.var.value.is_tuple # call.other.var.value.is_tuple) =>
          ~call.ret.ok /\ call.ret.error = "DevEnvError"
    /\ (mode = "envs" /\ ConsolidateRan /\ MixedShapes) =>
          /\ pc = "failed"
          /\ ~consolidated.ok
          /\ consolidated.error = "DevEnvError"
    /\ (mode = "envs" /\ ConsolidateRan /\ ~MixedShapes) => consolidated.ok

\* The older contribution is the scalar, the newer one the list.
C5_Witness ==
    /\ mode = "envs" /\ ConsolidateRan
    /\ EnvContributors = <<"a", "app">>
    /\ ~files["a"].env_vars["V"].is_tuple
    /\ files["app"].env_vars["V"].is_tuple
    /\ ~consolidated.ok

-----------------------------------------------------------------------------
(* What the workspace claims speak of: the upstream graph the files        *)
(* declare, by reachability, independently of the sorter.                  *)

\* The upstream projects the file of n declares (none if it was not read).
DeclaredUpstream(n) == IF n \in DOMAIN files THEN SeqToSet(files[n].upstream) ELSE {}

RECURSIVE UpstreamClosure(_)
\* S with everything reachable from it along declared upstream entries.
UpstreamClosure(S) ==
    LET T == S \cup UNION {DeclaredUpstream(n) : n \in S}
    IN  IF T = S THEN S ELSE UpstreamClosure(T)

Reachable == UpstreamClosure({StartName})

\* n is upstream of itself, directly or through other projects.
OnCycle(n) == n \in UpstreamClosure(DeclaredUpstream(n))

HasCycle == \E n \in Reachable : OnCycle(n)

\* No file that was read defines devenv.name or devenv.environments.
NoReservedKeys == \A n \in DOMAIN files : ~files[n].name_key /\ ~files[n].environments_key

\* from_starting_file has returned or raised.
BuildEnded == ws # NotYet

Position(n, order) == CHOOSE i \in 1..Len(order) : order[i] = n

(* C6: valid topological order.  For acyclic project files the build        *)
(* succeeds; iter_downstream holds every project reachable from the         *)
(* starting project exactly once, each after all of its direct upstream     *)
(* projects, and iter_upstream is the same sequence reversed.               *)
C6_TopologicalOrder ==
    /\ (BuildEnded /\ NoReservedKeys /\ ~HasCycle) => ws.ok
    /\ (BuildEnded /\ ws.ok) =>
          LET down == Names(Workspace_iter_downstream(files, ws.val))
              up == Names(Workspace_iter_upstream(files, ws.val))
          IN  /\ SeqToSet(down) = Reachable
              /\ Len(down) = Cardinality(Reachable)
              /\ \A n \in Reachable : \A u \in DeclaredUpstream(n) :
                    Position(u, down) < Position(n, down)
              /\ Len(up) = Len(down)
              /\ \A i \in 1..Len(down) : up[i] = down[Len(down) + 1 - i]

\* A diamond: the starting project reaches c through a and through b.
C6_Witness ==
    /\ BuildEnded /\ ws.ok
    /\ DeclaredUpstream("app") = {"a", "b"}
    /\ DeclaredUpstream("a") = {"c"}
    /\ DeclaredUpstream("b") = {"c"}
    /\ Len(ws.val.upstream_to_downstream_order) = 4
    /\ ws.val.upstream_to_downstream_order[1] = "c"

(* C7: in every workspace that was built, the starting project is the last  *)
(* element of the upstream-to-downstream order and the first element of     *)
(* iter_upstream, whatever the shape of the upstream graph.                 *)
C7_StartingProjectLast ==
    (BuildEnded /\ ws.ok) =>
        /\ ws.val.upstream_to_downstream_order # <<>>
        /\ ws.val.upstream_to_downstream_order[Len(ws.val.upstream_to_downstream_order)]
              = StartName
        /\ Workspace_iter_upstream(files, ws.val)[1].name = StartName
        /\ Workspace_iter_downstream(files, ws.val)[Len(ws.val.projects)].name = StartName

\* Two upstream branches of different depth: a over c, and b alone.
C7_Witness ==
    /\ BuildEnded /\ ws.ok
    /\ files["app"].upstream = <<"a", "b">>
    /\ files["a"].upstream = <<"c">>
    /\ files["b"].upstream = <<>>
    /\ files["c"].upstream = <<>>
    /\ ws.val.upstream_to_downstream_order[4] = "app"

\* The reported cycle is a closed walk along declared upstream entries, in
\* one direction or the other.
ClosedWalk(cycle) ==
    /\ Len(cycle) >= 2
    /\ cycle[1] = cycle[Len(cycle)]
    /\ \/ \A i \in 1..(Len(cycle) - 1) : cycle[i + 1] \in DeclaredUpstream(cycle[i])
       \/ \A i \in 1..(Len(cycle) - 1) : cycle[i] \in DeclaredUpstream(cycle[i + 1])

(* C8: cycle detection.  With well-formed files the build fails, with a     *)
(* DevEnvError and no workspace, exactly when the upstream graph reachable  *)
(* from the starting project has a cycle; the cycle it reports consists of  *)
(* projects that lie on an actual cycle (for a -> b -> a, both a and b).    *)
C8_CycleDetection ==
    /\ (BuildEnded /\ NoReservedKeys) => (~ws.ok <=> HasCycle)
    /\ (BuildEnded /\ ~ws.ok) => ws.error = "DevEnvError"
    /\ (BuildEnded /\ ~ws.ok /\ NoReservedKeys) =>
          /\ ws.msg = "DevEnv dependencies are in a cycle"
          /\ ClosedWalk(ws.cycle)
          /\ \A n \in SeqToSet(ws.cycle) : n \in Reachable /\ OnCycle(n)
          /\ pc = "failed"
          /\ consolidated = NotYet

\* a -> b -> a below the starting project: both are named, app is not.
C8_Witness ==
    /\ BuildEnded /\ ~ws.ok
    /\ files["app"].upstream = <<"a">>
    /\ files["a"].upstream = <<"b">>
    /\ files["b"].upstream = <<"a">>
    /\ SeqToSet(ws.cycle) = {"a", "b"}

-----------------------------------------------------------------------------
(* What the policy claims speak of.  In mode "policy" every project        *)
(* declares dependency lib, pypi dependency pip and env-var V, so the      *)
(* sources of a consolidated entry are the projects it was taken from.     *)

StartInherit == files[StartName].inherit

\* The three aspect kinds as (policy, consolidated dict, declared dict).
PolicyKinds == {"dependencies", "pypi_dependencies", "env_vars"}

\* The sources of the entries of one kind in the consolidated project.
SourcesOf(kind) ==
    UNION {SeqToSet(consolidated.val[kind][k].sources) : k \in DOMAIN consolidated.val[kind]}

\* The evaluator of one kind, as _consolidate_aspects calls it.
Uses(kind, n) ==
    CASE kind = "dependencies" -> Inheritance_use_dependencies(StartInherit, n, StartName)
      [] kind = "pypi_dependencies" ->
            Inheritance_use_pypi_dependencies(StartInherit, n, StartName)
      [] kind = "env_vars" -> Inheritance_use_env_vars(StartInherit, n, StartName)

(* C9: the starting project's own contribution is always included.  For     *)
(* dependencies, pypi-dependencies and env-vars the evaluator is true for   *)
(* the starting project's own name whatever its policy (false, an include   *)
(* list without it, an exclude list with it), and every name the starting   *)
(* project declares is in its consolidated result, sourced from it.         *)
C9_StartingProjectIncluded ==
    /\ (mode = "policy" /\ StartName \in DOMAIN files) =>
          \A kind \in PolicyKinds : Uses(kind, StartName)
    /\ (mode = "policy" /\ ConsolidateRan) =>
          /\ consolidated.ok
          /\ \A kind \in PolicyKinds : \A k \in DOMAIN files[StartName][kind] :
                /\ k \in DOMAIN consolidated.val[kind]
                /\ InSeq(StartName, consolidated.val[kind][k].sources)

\* Each policy of the starting project shuts the starting project out by
\* its letter; its own declarations are consolidated all the same.
C9_Witness ==
    /\ mode = "policy" /\ pc = "done"
    /\ StartInherit.dependencies = Bool(FALSE)
    /\ StartInherit.pypi_dependencies = Include(<<"b">>)
    /\ StartInherit.env_vars = Exclude(<<"app", "b">>)
    /\ files["app"].upstream = <<"a">>
    /\ files["a"].upstream = <<>>
    /\ consolidated.val.dependencies["lib"].sources = <<"app">>
    /\ consolidated.val.pypi_dependencies["pip"].sources = <<"app">>
    /\ consolidated.val.env_vars["V"].sources = <<"a", "app">>

(* C10: policy evaluation for the other projects.  A project other than the *)
(* starting one contributes to an aspect kind exactly when the starting     *)
(* project's policy for that kind is true, or an include list naming it, or *)
(* an exclude list not naming it; the policies of the projects in between   *)
(* play no part.                                                            *)
C10_OtherProjectsPolicy ==
    /\ (mode = "policy" /\ StartName \in DOMAIN files) =>
          \A kind \in PolicyKinds : \A n \in DOMAIN files \ {StartName} :
              Uses(kind, n) <=> PolicyAllows(StartInherit[kind], n)
    /\ (mode = "policy" /\ pc = "done") =>
          \A kind \in PolicyKinds : \A n \in DOMAIN files \ {StartName} :
              (n \in SourcesOf(kind)) <=> PolicyAllows(StartInherit[kind], n)

\* Project a, between app and b, inherits nothing by its own policy, yet b
\* contributes to app: dependencies by true, pypi by an include list, and
\* env-vars by an exclude list that names a only.
C10_Witness ==
    /\ mode = "policy" /\ pc = "done"
    /\ files["app"].upstream = <<"a">>
    /\ files["a"].upstream = <<"b">>
    /\ files["a"].inherit.dependencies = Bool(FALSE)
    /\ StartInherit.dependencies = Bool(TRUE)
    /\ StartInherit.pypi_dependencies = Include(<<"b">>)
    /\ StartInherit.env_vars = Exclude(<<"a">>)
    /\ consolidated.val.dependencies["lib"].sources = <<"b", "a", "app">>
    /\ consolidated.val.pypi_dependencies["pip"].sources = <<"b", "app">>
    /\ consolidated.val.env_vars["V"].sources = <<"b", "app">>

-----------------------------------------------------------------------------
(* What the dependency claims speak of, in mode "deps": every project may  *)
(* declare lib as a dependency, as a pypi dependency and as a constraint.  *)

DepKinds == {"dependencies", "pypi_dependencies"}

Order == ws.val.upstream_to_downstream_order

\* The starting project's own constraint on name k, if it declares one.
OwnVersions(kind, k) ==
    {files[StartName][kind][k].version}
      \cup (IF k \in DOMAIN files[StartName].constraints
            THEN {files[StartName][kind][k].version \o ","
                    \o files[StartName].constraints[k].version}
            ELSE {})

(* C11: with inherit.dependencies = false and inherit.pypi-dependencies =   *)
(* false the consolidated dependencies and pypi_dependencies hold exactly   *)
(* the names the starting project declares, every sources tuple names the   *)
(* starting project only, and no upstream version or constraint is merged.  *)
C11_NothingInherited ==
    (mode = "deps" /\ pc = "done"
       /\ StartInherit.dependencies = Bool(FALSE)
       /\ StartInherit.pypi_dependencies = Bool(FALSE)) =>
        \A kind \in DepKinds :
            /\ DOMAIN consolidated.val[kind] = DOMAIN files[StartName][kind]
            /\ \A k \in DOMAIN consolidated.val[kind] :
                  /\ SeqToSet(consolidated.val[kind][k].sources) = {StartName}
                  /\ consolidated.val[kind][k].spec.version \in OwnVersions(kind, k)

\* Both upstream projects declare lib and constrain it; none of it shows.
C11_Witness ==
    /\ mode = "deps" /\ pc = "done"
    /\ StartInherit.dependencies = Bool(FALSE)
    /\ StartInherit.pypi_dependencies = Bool(FALSE)
    /\ Order = <<"b", "a", "app">>
    /\ \A n \in {"a", "b"} :
          "lib" \in DOMAIN files[n].dependencies /\ "lib" \in DOMAIN files[n].constraints
    /\ files["app"].constraints = EmptyDict
    /\ DOMAIN consolidated.val.dependencies = {"lib"}
    /\ consolidated.val.dependencies["lib"] = MergedSpec(<<"app">>, Spec_(">=app", "", ""))
    /\ consolidated.val.pypi_dependencies = EmptyDict

-----------------------------------------------------------------------------
(* What the feature claims speak of, in mode "feat": the projects that     *)
(* declare feature f, and those the consolidated feature was taken from.   *)

\* The projects of the workspace that declare feature f.
Declarers == {n \in DOMAIN files : "f" \in DOMAIN files[n].feature}

\* use_feature as _consolidate_feature calls it for project n.
UsesFeature(n) ==
    Inheritance_use_feature(StartInherit, "f", n, StartName, DOMAIN files[StartName].feature)

\* The projects whose dependency lib is merged in the consolidated feature f.
FeatureSources ==
    IF "f" \in DOMAIN consolidated.val.feature
          /\ "lib" \in DOMAIN consolidated.val.feature["f"].dependencies
    THEN SeqToSet(consolidated.val.feature["f"].dependencies["lib"].sources)
    ELSE {}

\* Project n declares a dependency in its feature f that the starting
\* project's dependencies policy lets through.
GivesLib(n) ==
    /\ "lib" \in DOMAIN files[n].feature["f"].dependencies
    /\ n = StartName \/ PolicyAllows(StartInherit.dependencies, n)

(* C12: when the starting project declares feature f, every project of the  *)
(* workspace that declares f contributes to the consolidated feature f:     *)
(* use_feature is true for each of them whatever inherit.features holds     *)
(* for f, and what each declares in f is merged.                            *)
C12_OwnFeatureInheritsAll ==
    (mode = "feat" /\ pc = "done" /\ "f" \in DOMAIN files[StartName].feature) =>
        /\ \A n \in Declarers : UsesFeature(n)
        /\ "f" \in DOMAIN consolidated.val.feature
        /\ \A n \in Declarers : GivesLib(n) => n \in FeatureSources

\* The starting project declares f and its inherit.features says false for
\* f, or excludes a: a and b contribute all the same.
C12_Witness ==
    /\ mode = "feat" /\ pc = "done"
    /\ "f" \in DOMAIN files[StartName].feature
    /\ StartInherit.features = ("f" :> Exclude(<<"a">>))
    /\ StartInherit.dependencies = Bool(TRUE)
    /\ Declarers = {"app", "a", "b"}
    /\ consolidated.val.feature["f"].dependencies["lib"].sources = <<"b", "a", "app">>

(* C13: when the starting project does not declare feature f, f is taken    *)
(* from project p exactly when inherit.features has an entry for f that     *)
(* admits p (true, an include list naming p, an exclude list not naming     *)
(* p); without an entry, or with the entry false, nobody contributes and f  *)
(* is absent from the consolidated features.                                *)
C13_UpstreamFeatureNeedsEntry ==
    (mode = "feat" /\ pc = "done" /\ "f" \notin DOMAIN files[StartName].feature) =>
        LET admitted ==
                {n \in Declarers : "f" \in DOMAIN StartInherit.features
                                     /\ PolicyAllows(StartInherit.features["f"], n)}
        IN  /\ \A n \in Declarers : UsesFeature(n) <=> n \in admitted
            /\ FeatureSources = {n \in admitted : GivesLib(n)}
            /\ admitted = {} => "f" \notin DOMAIN consolidated.val.feature
            /\ ("f" \notin DOMAIN StartInherit.features
                  \/ StartInherit.features["f"] = Bool(FALSE)) =>
                  consolidated.val.feature = EmptyDict

\* f is declared by a and b only; the include list admits a and not b.
C13_Witness ==
    /\ mode = "feat" /\ pc = "done"
    /\ Declarers = {"a", "b"}
    /\ StartInherit.features = ("f" :> Include(<<"a">>))
    /\ StartInherit.dependencies = Bool(TRUE)
    /\ "f" \in DOMAIN consolidated.val.feature
    /\ "lib" \in DOMAIN consolidated.val.feature["f"].dependencies
    /\ consolidated.val.feature["f"].dependencies["lib"].sources = <<"a">>

\* Project n's declarations of the kind are taken under the starting
\* project's policy for it.
Admitted(kind, n) == n = StartName \/ PolicyAllows(StartInherit[kind], n)

\* The projects whose direct declaration of k under `kind` is taken, upstream first.
DirectDeclarers(kind, k) ==
    SelectInOrder(Order, {n \in DOMAIN files : k \in DOMAIN files[n][kind] /\ Admitted(kind, n)})

\* The projects whose constraint on k is taken, upstream first: those
\* admitted for dependencies or for pypi-dependencies.
ConstraintDeclarers(k) ==
    SelectInOrder(Order,
        {n \in DOMAIN files :
            /\ k \in DOMAIN files[n].constraints
            /\ Admitted("dependencies", n) \/ Admitted("pypi_dependencies", n)})

RECURSIVE JoinVersions(_)
\* The non-wildcard versions of the sequence joined by commas; "*" if none.
JoinVersions(vs) ==
    IF vs = <<>> THEN "*"
    ELSE IF Head(vs) = "*" THEN JoinVersions(Tail(vs))
    ELSE IF JoinVersions(Tail(vs)) = "*" THEN Head(vs)
    ELSE Head(vs) \o "," \o JoinVersions(Tail(vs))

\* How often x occurs in the sequence s.
Occurrences(x, s) == Cardinality({i \in 1..Len(s) : s[i] = x})

(* C14: a constraint is applied once, at the first direct use.  When a      *)
(* constraint on n and a direct declaration of n are both taken, the entry  *)
(* for n merges the first direct declaration, then the constraint, then     *)
(* the later direct declarations; each constraint project and each          *)
(* declaring project is in its sources, the constraint only once.           *)
C14_ConstraintOnceAtFirstUse ==
    (mode = "deps" /\ pc = "done") =>
        \A kind \in DepKinds : \A k \in DOMAIN consolidated.val[kind] :
            LET direct == DirectDeclarers(kind, k)
                constr == ConstraintDeclarers(k)
                entry == consolidated.val[kind][k]
            IN  /\ direct # <<>>
                /\ entry.spec.version =
                      JoinVersions(<<files[direct[1]][kind][k].version>>
                         \o [i \in 1..Len(constr) |-> files[constr[i]].constraints[k].version]
                         \o [i \in 1..(Len(direct) - 1) |->
                                files[direct[i + 1]][kind][k].version])
                /\ SeqToSet(entry.sources) = SeqToSet(direct) \cup SeqToSet(constr)
                /\ \A n \in SeqToSet(entry.sources) :
                      Occurrences(n, entry.sources) =
                         Occurrences(n, direct) + Occurrences(n, constr)

\* b constrains lib, a depends on it with "*", app with its own version:
\* the constraint decides a's version and is not applied again for app.
C14_Witness ==
    /\ mode = "deps" /\ pc = "done"
    /\ Order = <<"b", "a", "app">>
    /\ ConstraintDeclarers("lib") = <<"b">>
    /\ DirectDeclarers("dependencies", "lib") = <<"a", "app">>
    /\ files["a"].dependencies["lib"].version = "*"
    /\ consolidated.val.dependencies["lib"].spec.version = "<b,>=app"
    /\ SeqToSet(consolidated.val.dependencies["lib"].sources) = {"a", "b", "app"}
    /\ Len(consolidated.val.dependencies["lib"].sources) = 3

\* The names some admitted project declares directly under `kind`.
DirectNames(kind) ==
    UNION {DOMAIN files[n][kind] : n \in {m \in DOMAIN files : Admitted(kind, m)}}

\* The names some project of the workspace constrains.
ConstrainedNames == UNION {DOMAIN files[n].constraints : n \in DOMAIN files}

(* C15: constraints never become dependencies.  A name found only in        *)
(* constraints tables, with no taken direct declaration under dependencies  *)
(* (or pypi-dependencies), is not in the consolidated dependencies (or      *)
(* pypi_dependencies).                                                      *)
C15_ConstraintsNotDependencies ==
    (mode = "deps" /\ pc = "done") =>
        \A kind \in DepKinds :
            /\ \A k \in ConstrainedNames \ DirectNames(kind) :
                  k \notin DOMAIN consolidated.val[kind]
            /\ DOMAIN consolidated.val[kind] = DirectNames(kind)

\* lib and foobar are constrained by b; lib is a pypi dependency of a and
\* nobody's conda dependency: only the pypi entry exists, constrained.
C15_Witness ==
    /\ mode = "deps" /\ pc = "done"
    /\ Order = <<"b", "a", "app">>
    /\ DOMAIN files["b"].constraints = {"lib", "foobar"}
    /\ ConstraintDeclarers("lib") = <<"b">>
    /\ DirectNames("dependencies") = {}
    /\ DirectDeclarers("pypi_dependencies", "lib") = <<"a">>
    /\ consolidated.val.dependencies = EmptyDict
    /\ DOMAIN consolidated.val.pypi_dependencies = {"lib"}
    /\ consolidated.val.pypi_dependencies["lib"].spec.version = "==a,<b"

\* p is upstream of q, directly or through other projects.
UpstreamOf(p, q) == p # q /\ p \in UpstreamClosure(DeclaredUpstream(q))

\* No project of the tuple comes before one of its upstream projects.
UpstreamFirst(sources) ==
    \A i, j \in 1..Len(sources) : UpstreamOf(sources[i], sources[j]) => i < j

(* C16: sources read upstream-first.  In every sources tuple of the         *)
(* consolidated output, entries seeded from a constraint included, a        *)
(* project that is upstream of another one of the tuple comes before it.    *)
(* An entry seeded from a constraint has the declaring project first and    *)
(* the constraint's projects after it (consolidate.py:326-328), so this is  *)
(* violated when the constraint comes from upstream.                        *)
C16_SourcesUpstreamFirst ==
    (mode = "deps" /\ pc = "done") =>
        \A kind \in DepKinds : \A k \in DOMAIN consolidated.val[kind] :
            UpstreamFirst(consolidated.val[kind][k].sources)

-----------------------------------------------------------------------------
(* What the platform claims speak of.                                      *)

MatchCalled == call.fn = "target_matches_platforms"

\* The name, lower-cased, is one of the given selector aliases.
IsAlias(name, aliases) == \E a \in aliases : str_lower(name) = Chars(a)

\* Some platform of the list begins with the prefix.
SomeBegins(platforms, prefix) ==
    \E i \in 1..Len(platforms) : SubSeq(platforms[i], 1, Len(Chars(prefix))) = Chars(prefix)

\* The cases test_target_matches_platforms lists, with the expected results.
MatcherTestCases ==
    {<<"win", <<>>, TRUE>>,
     <<"linux-64", <<"linux-64", "win-64">>, TRUE>>,
     <<"linux-64", <<"win-64">>, FALSE>>,
     <<"win", <<"win-64">>, TRUE>>,
     <<"windows", <<"win-64">>, TRUE>>,
     <<"win", <<"linux-64">>, FALSE>>,
     <<"linux", <<"linux-64">>, TRUE>>,
     <<"linux", <<"win-64">>, FALSE>>,
     <<"osx", <<"osx-64">>, TRUE>>,
     <<"macos", <<"osx-arm64">>, TRUE>>,
     <<"osx", <<"linux-64">>, FALSE>>,
     <<"unix", <<"linux-64">>, TRUE>>,
     <<"unix", <<"osx-64">>, TRUE>>,
     <<"unix", <<"win-64">>, FALSE>>}

(* C19: target_matches_platforms(t, P) equals the reference predicate:      *)
(* true if P is empty or t equals an element of P; otherwise, for the       *)
(* case-insensitive aliases, win/windows iff a platform begins with "win",  *)
(* linux iff one begins with "linux", osx/macos iff one begins with "osx",  *)
(* unix iff one does not begin with "win"; any other name is false.  The    *)
(* cases of test_target_matches_platforms give the results listed there.    *)
C19_MatcherReference ==
    MatchCalled =>
        LET t == call.target_name
            P == call.platforms
            exact == \E i \in 1..Len(P) : P[i] = t
        IN  /\ P = <<>> => call.ret
            /\ exact => call.ret
            /\ (P # <<>> /\ ~exact) =>
                  /\ IsAlias(t, {"win", "windows"}) => (call.ret <=> SomeBegins(P, "win"))
                  /\ IsAlias(t, {"linux"}) => (call.ret <=> SomeBegins(P, "linux"))
                  /\ IsAlias(t, {"osx", "macos"}) => (call.ret <=> SomeBegins(P, "osx"))
                  /\ IsAlias(t, {"unix"}) =>
                        (call.ret <=> \E i \in 1..Len(P) : ~SomeBegins(<<P[i]>>, "win"))
                  /\ ~IsAlias(t, {"win", "windows", "linux", "osx", "macos", "unix"}) =>
                        ~call.ret
            /\ \A c \in MatcherTestCases :
                  (t = Chars(c[1]) /\ P = [i \in 1..Len(c[2]) |-> Chars(c[2][i])]) =>
                     call.ret = c[3]

\* The alias unix, written Unix, is refused against win-64 alone.
C19_Witness ==
    /\ MatchCalled
    /\ call.target_name = Chars("Unix")
    /\ call.platforms = <<Chars("win-64")>>
    /\ ~call.ret

\* The list (channels or platforms) of the last project, in
\* upstream-to-downstream order, whose file declares a non-empty one.
NearestDeclared(field) ==
    LET declaring == {i \in 1..Len(Order) : files[Order[i]][field] # <<>>}
    IN  IF declaring = {} THEN <<>>
        ELSE files[Order[CHOOSE i \in declaring : \A j \in declaring : j <= i]][field]

(* C20: the consolidated channels are the channel list of the last project  *)
(* in upstream-to-downstream order that declares a non-empty one (empty if  *)
(* none does), and the consolidated platforms are chosen the same way,      *)
(* independently: a non-empty list of the starting project overrides the    *)
(* upstream values, an empty one lets the nearest upstream value through.   *)
C20_ChannelsPlatforms ==
    (ConsolidateRan /\ consolidated.ok) =>
        /\ consolidated.val.channels = NearestDeclared("channels")
        /\ consolidated.val.platforms = NearestDeclared("platforms")
        /\ files[StartName].channels # <<>> =>
              consolidated.val.channels = files[StartName].channels
        /\ files[StartName].platforms # <<>> =>
              consolidated.val.platforms = files[StartName].platforms

\* The starting project declares platforms and no channels, two upstream
\* projects declare both: the platforms are its own, the channels come from
\* the nearest upstream project.
C20_Witness ==
    /\ ConsolidateRan /\ consolidated.ok
    /\ Order = <<"b", "a", "app">>
    /\ files["b"].channels # <<>> /\ files["a"].channels # <<>>
    /\ files["b"].platforms # <<>> /\ files["a"].platforms # <<>>
    /\ files["app"].channels = <<>>
    /\ consolidated.val.channels = <<"channel-a">>
    /\ consolidated.val.platforms = <<"linux-64">>

\* The resolved platform list, each platform as its characters.
ResolvedPlatforms ==
    [i \in 1..Len(consolidated.val.platforms) |-> Chars(consolidated.val.platforms[i])]

\* Target name t has no platform of the resolved list to run on.
Incompatible(t) == ~target_matches_platforms(Chars(t), ResolvedPlatforms)

(* C17: after consolidate_devenv, when the resolved platform list is not    *)
(* empty, no target name of the consolidated root target map is             *)
(* incompatible with it.  The code folds every target in                    *)
(* (consolidate.py:393-405), so this does not hold.                         *)
C17_RootTargetsFiltered ==
    (ConsolidateRan /\ consolidated.ok /\ consolidated.val.platforms # <<>>) =>
        \A t \in DOMAIN consolidated.val.target : ~Incompatible(t)

(* C18: for every feature of the consolidated output, no target name of its *)
(* nested target map is incompatible with the resolved, non-empty platform  *)
(* list, and the feature's root dependencies of all contributors are        *)
(* merged.  The code folds every feature target in (consolidate.py:427-434),*)
(* so this does not hold.                                                   *)
C18_FeatureTargetsFiltered ==
    (ConsolidateRan /\ consolidated.ok /\ consolidated.val.platforms # <<>>) =>
        \A f \in DOMAIN consolidated.val.feature :
            /\ \A t \in DOMAIN consolidated.val.feature[f].target : ~Incompatible(t)
            /\ \A n \in Declarers :
                  (UsesFeature(n) /\ "lib" \in DOMAIN files[n].feature[f].dependencies) =>
                     n \in FeatureSources

\* Project n is taken for feature f and something of what it declares in f
\* reaches the result: a dependency the dependencies policy lets through, or
\* a target.
Contributes(n) ==
    /\ UsesFeature(n)
    /\ GivesLib(n) \/ DOMAIN files[n].feature["f"].target # {}

(* C21: a feature name is in the consolidated feature map iff its           *)
(* consolidated dependencies, pypi_dependencies, env_vars and target map    *)
(* are not all empty: feature f is in the output exactly when some project  *)
(* taken for f brings a dependency or a target, and no feature of the       *)
(* output is empty.                                                         *)
C21_EmptyFeaturesOmitted ==
    (mode = "feat" /\ pc = "done") =>
        /\ \A f \in DOMAIN consolidated.val.feature :
              \/ DOMAIN consolidated.val.feature[f].dependencies # {}
              \/ DOMAIN consolidated.val.feature[f].pypi_dependencies # {}
              \/ DOMAIN consolidated.val.feature[f].env_vars # {}
              \/ DOMAIN consolidated.val.feature[f].target # {}
        /\ "f" \in DOMAIN consolidated.val.feature <=> \E n \in Declarers : Contributes(n)
        /\ DOMAIN consolidated.val.feature \subseteq {"f"}

\* Feature f is declared, its declarers are taken, and nothing of it reaches
\* the result because the dependencies policy is false: f is omitted.
C21_Witness ==
    /\ mode = "feat" /\ pc = "done"
    /\ Declarers = {"a", "b"}
    /\ UsesFeature("a") /\ UsesFeature("b")
    /\ "lib" \in DOMAIN files["a"].feature["f"].dependencies
    /\ StartInherit.dependencies = Bool(FALSE)
    /\ consolidated.val.feature = EmptyDict

\* The directory of project n written relative to the starting project's
\* directory and rooted at the workspace-root token: the projects are
\* sibling directories.
ExpectedProjectDir(n) ==
    IF n = StartName THEN "${PIXI_PROJECT_ROOT}" ELSE "${PIXI_PROJECT_ROOT}/../" \o n

\* The text of one raw string of project n after the replacement.
ExpectedText(raw, n) ==
    CASE raw = RawSrc -> ExpectedProjectDir(n) \o "/src"
      [] raw = RawPlain -> "310"
      [] raw = RawArtifacts -> ExpectedProjectDir(n) \o "/artifacts-$CONDA_PY"

\* What project n declares for V, every string component replaced.
ExpectedV(n) ==
    [i \in 1..Len(files[n].env_vars["V"].items) |->
        ExpectedText(files[n].env_vars["V"].items[i], n)]

-----------------------------------------------------------------------------
(* What the loading claims speak of.                                        *)

\* The files read so far that define a reserved key.
ReservedKeyReaders == {n \in DOMAIN files : files[n].name_key \/ files[n].environments_key}

(* C23: reserved keys are fatal.  As soon as a file read while building the *)
(* workspace, the starting file or an upstream file at any depth, defines   *)
(* devenv.name or a devenv.environments table, loading has failed with a    *)
(* DevEnvError, no workspace exists and nothing is consolidated; a file     *)
(* with neither is registered under the name of its directory.              *)
C23_ReservedKeysFatal ==
    /\ ReservedKeyReaders # {} =>
          /\ pc = "failed"
          /\ ~ws.ok /\ ws.error = "DevEnvError"
          /\ ws.msg \in {"devenv.name should not be defined explicitly",
                         "devenv.environments table should not be defined"}
          /\ consolidated = NotYet
          /\ \A n \in ReservedKeyReaders : ~InSeq(n, Names(projects))
    /\ \A i \in 1..Len(projects) :
          /\ projects[i].name \notin ReservedKeyReaders
          /\ projects[i].name = projects[i].directory[Len(projects[i].directory)]
    /\ (BuildEnded /\ ws.ok) => ReservedKeyReaders = {}

\* The file of b, upstream of a, upstream of the starting project, defines
\* devenv.environments and nothing else: loading fails when it is read.
C23_Witness ==
    /\ pc = "failed"
    /\ Names(projects) = <<"app", "a">>
    /\ "b" \in DOMAIN files
    /\ files["b"].environments_key /\ ~files["b"].name_key
    /\ ws.msg = "devenv.environments table should not be defined"

-----------------------------------------------------------------------------
(* What the build and channel claims speak of.                              *)

(* C24: downstream wins for build and channel.  When the running spec of    *)
(* the upstream projects and the spec of the downstream project both carry  *)
(* a build (or a channel), the merged spec carries the downstream           *)
(* project's.  The code raises when the two differ and keeps the upstream   *)
(* value otherwise (consolidate.py:156-169), so this does not hold.         *)
C24_DownstreamWins ==
    call.fn = "MergedSpec.add" =>
        /\ (call.self.spec.build # "" /\ call.spec.build # "") =>
              call.ret.ok /\ call.ret.val.spec.build = call.spec.build
        /\ (call.self.spec.channel # "" /\ call.spec.channel # ""
              /\ ~Clash(call.self.spec.build, call.spec.build)) =>
              call.ret.ok /\ call.ret.val.spec.channel = call.spec.channel

\* Two of the contributions carry different non-empty builds, or channels.
TwoDiffer(given) ==
    \E i, j \in 1..Len(given) :
        Clash(given[i].build, given[j].build) \/ Clash(given[i].channel, given[j].channel)

\* The sequences of three or more contributions.
LongChains == UNION {[1..n -> ChainSpecs] : n \in 3..MaxContribs}

InLoop == pc = "for" \/ (pc = "while" /\ to_process # <<>>)

\* The upstream entries of `project` the for loop has still to load.
RemainingUpstream ==
    IF pc = "for" THEN Len(files[project.name].upstream) - upstream_i + 1 ELSE 0

\* What is left to do: the names not registered yet weigh more than the
\* entries a new project can push, an entry to load more than one to pop.
LoopMeasure ==
    (Cardinality(ProjectNames) - Len(projects)) * (2 * Cardinality(ProjectNames) + 1)
      + 2 * RemainingUpstream + Len(to_process)

\* Each name is registered at most once, in the projects map and the graph.
RegisteredOnce ==
    /\ \A i, j \in 1..Len(projects) : projects[i].name = projects[j].name => i = j
    /\ DOMAIN graph = SeqToSet(Names(projects))
    /\ SeqToSet(Names(projects)) \subseteq ProjectNames

(* C26: graph construction terminates.  For any project files, with cycles  *)
(* or diamonds among the upstream references, every step of the work-list   *)
(* loop strictly decreases a natural number, so the loop ends; each project *)
(* name is in the projects map and the graph at most once, and popping a    *)
(* name that is already known changes neither.                              *)
C26_LoopTerminates ==
    /\ [](RegisteredOnce /\ LoopMeasure >= 0)
    /\ [][InLoop =>
            /\ LoopMeasure' < LoopMeasure
            /\ (pc = "while" /\ InSeq(to_process[Len(to_process)].name, Names(projects))) =>
                  (projects' = projects /\ graph' = graph /\ pc' = "while")]_vars

\* a and b are upstream of each other and b is named twice: three projects
\* are registered and the loop has ended.
C26_Witness ==
    /\ BuildEnded
    /\ DOMAIN files = {"app", "a", "b"}
    /\ files["app"].upstream = <<"a", "b">>
    /\ files["a"].upstream = <<"b">>
    /\ files["b"].upstream = <<"a">>
    /\ Len(projects) = 3
    /\ to_process = <<>>

-----------------------------------------------------------------------------
(* What the later dependency claims speak of.                               *)

(* C27, as stated: every sources tuple of the consolidated output names     *)
(* each contributing project at most once, also when one project declares   *)
(* both a constraint and a direct dependency for the same name.  The        *)
(* constraint's sources are appended to the declaring project               *)
(* (consolidate.py:325-327), so such a project is named twice.              *)
C27_NoDuplicateSources ==
    (mode = "deps" /\ pc = "done") =>
        \A kind \in DepKinds : \A k \in DOMAIN consolidated.val[kind] :
            \A n \in DOMAIN files : Occurrences(n, consolidated.val[kind][k].sources) <= 1

(* C27, amended: a sources tuple names a project once for each of its       *)
(* declarations that is merged: never more than twice, and twice exactly    *)
(* when the project both declares the name directly and constrains it.     *)
C27_SourcesPerDeclaration ==
    (mode = "deps" /\ pc = "done") =>
        \A kind \in DepKinds : \A k \in DOMAIN consolidated.val[kind] :
            \A n \in DOMAIN files :
                LET times == Occurrences(n, consolidated.val[kind][k].sources)
                    direct == InSeq(n, DirectDeclarers(kind, k))
                    constr == InSeq(n, ConstraintDeclarers(k))
                IN  /\ times <= 2
                    /\ times = 2 <=> (direct /\ constr)
                    /\ times = 1 <=> (direct # constr)

\* The starting project constrains lib and depends on it; nobody else does.
C27_Witness ==
    /\ mode = "deps" /\ pc = "done"
    /\ DirectDeclarers("dependencies", "lib") = <<"app">>
    /\ ConstraintDeclarers("lib") = <<"app">>
    /\ consolidated.val.dependencies["lib"].sources = <<"app", "app">>
    /\ consolidated.val.dependencies["lib"].spec.version = ">=app,<app"

(* C28: inherit.dependencies = false isolates the conda dependencies on its *)
(* own.  Whenever the starting project's dependencies policy is false,      *)
(* whatever its pypi-dependencies policy, every entry of the consolidated   *)
(* root dependencies names only the starting project and its version comes  *)
(* from the starting project's own declarations.  The constraints of a      *)
(* project are taken when either policy admits it (consolidate.py:337-340), *)
(* so with pypi-dependencies inherited this does not hold.                  *)
C28_DependenciesIsolated ==
    (mode = "deps" /\ pc = "done" /\ StartInherit.dependencies = Bool(FALSE)) =>
        \A k \in DOMAIN consolidated.val.dependencies :
            /\ SeqToSet(consolidated.val.dependencies[k].sources) = {StartName}
            /\ consolidated.val.dependencies[k].spec.version \in OwnVersions("dependencies", k)

(* C29: unused constraints cannot abort consolidation.  consolidate_devenv  *)
(* fails with a build or channel conflict only when some included project   *)
(* declares the name as a direct dependency or pypi-dependency; conflicting *)
(* constraints on a name nobody depends on do not make it fail.  The        *)
(* constraints of all included projects are merged before any dependency    *)
(* is looked at (consolidate.py:331-344), so this does not hold.            *)
C29_UnusedConstraintsHarmless ==
    (mode = "build" /\ ConsolidateRan /\ ~consolidated.ok) =>
        "lib" \in DirectNames("dependencies") \cup DirectNames("pypi_dependencies")

-----------------------------------------------------------------------------
(* What the feature gate claim speaks of.                                   *)

GateKinds == {"dependencies", "pypi_dependencies", "env_vars"}

\* The name every feature declares under the kind.
GateName(kind) ==
    CASE kind = "dependencies" -> "lib"
      [] kind = "pypi_dependencies" -> "pip"
      [] kind = "env_vars" -> "V"

\* The feature rule admits project p for feature f: the starting project
\* declares f itself, or its inherit.features has an entry for f admitting p.
FeatureAdmits(p) ==
    \/ "f" \in DOMAIN files[StartName].feature
    \/ "f" \in DOMAIN StartInherit.features /\ PolicyAllows(StartInherit.features["f"], p)

\* The projects merged into the entry of the kind, in the consolidated
\* feature f and in its target win.
MergedAtRoot(kind) ==
    IF "f" \in DOMAIN consolidated.val.feature
          /\ GateName(kind) \in DOMAIN consolidated.val.feature["f"][kind]
    THEN SeqToSet(consolidated.val.feature["f"][kind][GateName(kind)].sources)
    ELSE {}

MergedAtTarget(kind) ==
    IF "f" \in DOMAIN consolidated.val.feature
          /\ "win" \in DOMAIN consolidated.val.feature["f"].target
          /\ GateName(kind) \in DOMAIN consolidated.val.feature["f"].target["win"][kind]
    THEN SeqToSet(consolidated.val.feature["f"].target["win"][kind][GateName(kind)].sources)
    ELSE {}

(* C30: feature contributions pass two gates.  In the consolidated feature  *)
(* f, what a non-starting project p declares inside f as dependency, pypi   *)
(* dependency or env-var is merged iff the feature rule admits p for f and  *)
(* the starting project's policy for that aspect admits p; an explicit      *)
(* inherit.features entry does not override inherit.dependencies = false;   *)
(* the same holds for the targets nested in f.                              *)
C30_FeatureTwoGates ==
    (mode = "gates" /\ pc = "done") =>
        /\ consolidated.ok
        /\ \A kind \in GateKinds : \A p \in Declarers \ {StartName} :
              LET both == FeatureAdmits(p) /\ PolicyAllows(StartInherit[kind], p)
              IN  /\ p \in MergedAtRoot(kind) <=> both
                  /\ p \in MergedAtTarget(kind) <=> both
        /\ StartInherit.dependencies = Bool(FALSE) =>
              /\ MergedAtRoot("dependencies") \subseteq {StartName}
              /\ MergedAtTarget("dependencies") \subseteq {StartName}

\* inherit.features admits everybody for f and inherit.dependencies is
\* false: the pypi dependencies and env-vars of a and b are merged, their
\* dependencies are not, at the root of f and in its target.
C30_Witness ==
    /\ mode = "gates" /\ pc = "done"
    /\ Declarers = {"a", "b"}
    /\ StartInherit.features = ("f" :> Bool(TRUE))
    /\ StartInherit.dependencies = Bool(FALSE)
    /\ StartInherit.pypi_dependencies = Bool(TRUE)
    /\ StartInherit.env_vars = Bool(TRUE)
    /\ MergedAtRoot("dependencies") = {} /\ MergedAtTarget("dependencies") = {}
    /\ MergedAtRoot("pypi_dependencies") = {"a", "b"}
    /\ MergedAtTarget("env_vars") = {"a", "b"}

=============================================================================
